---- MODULE Spec2Model ----
(***************************************************************************)
(* Release-edit session management and the Play Store publish pipeline of  *)
(* release_the_hounds: the persisted edit record (.autopublish/state.json, *)
(* playStore.edits), createEdit / getExistingEdit / validateEdit /         *)
(* commitEdit (play-store/edits.js), uploadBuildWithEdit (releases), the   *)
(* app-existence check (createPlayStoreApp) and the stage calls of one     *)
(* publish run.  The Android Publisher API is the environment: every call  *)
(* answers with one of the outcomes the code distinguishes.                *)
(* Further specifications cover the dry run, concurrent invocations on     *)
(* state.json, setReleaseTrack (alone and concurrent) and                  *)
(* setListingMetadata with its validation.                                 *)
(***************************************************************************)
EXTENDS Integers, Sequences, FiniteSets, TLC

VARIABLES
    store,        \* state.json: playStore.edits, package -> record or NoEdit
    now,          \* wall clock, milliseconds
    nextEditId,   \* the id the platform hands out at the next edits.insert
    ticks,        \* clock advances made so far (bounded)
    runs,         \* publish runs started so far (bounded)
    pc,           \* position of the current publish run
    pkg,          \* packageName of the current run
    editId,       \* local editId of the run (Null = undefined)
    versionCode,  \* version code returned by the upload (0 = none yet)
    phase,        \* orchestrator state of the run
    calls,        \* API requests sent in the current run, in order
    lookup,       \* what getExistingEdit saw and returned in this run
    result,       \* what the call under way returned (NoResult before)
    lastStep,     \* the handler outcome that produced the current state
    writer,       \* concurrent invocations reading and writing state.json
    track,        \* the release list of the track as the platform holds it
    setter,       \* concurrent executions of setReleaseTrack
    metadata,     \* the metadata argument of setListingMetadata
    input,        \* the arguments and surroundings of a single call
    local         \* the local variables of a single call while it runs

vars == <<store, now, nextEditId, ticks, runs, pc, pkg, editId, versionCode,
          phase, calls, lookup, result, lastStep, writer, track, setter,
          metadata, input, local>>

\* the variables of the concurrent invocations and of the single calls, which
\* a publish run leaves alone
others == <<writer, track, setter, metadata, input, local>>

----------------------------------------------------------------------------
(* Bounds of the model *)

MaxTicks == 2
MaxRuns == 2
MaxEdits == 3
MaxVersion == 1

(* Program constants *)

\* edits.js:57  (now - createdAt) / (1000 * 60 * 60)
MsPerHour == 3600000
\* edits.js:59  hoursSinceCreation >= 1
ExpiryHours == 1

Packages == {"com.a", "com.b"}
Null == 0
NoEdit == [editId |-> Null]
EditIds == 1..MaxEdits
VersionCodes == 1..MaxVersion
\* the clock advances by one millisecond or by one millisecond short of an hour
TickSteps == {1, MsPerHour - 1}

----------------------------------------------------------------------------
(* Date handling: createdAt is stored as an ISO-8601 string                *)
(* (new Date().toISOString()) and parsed back by new Date(string).         *)

MsPerSecond == 1000
MsPerMinute == 60000
MsPerDay == 86400000

\* saveEditState: new Date().toISOString() -- the broken-down UTC fields
ToISOString(t) ==
    [day    |-> t \div MsPerDay,
     hour   |-> (t % MsPerDay) \div MsPerHour,
     minute |-> (t % MsPerHour) \div MsPerMinute,
     second |-> (t % MsPerMinute) \div MsPerSecond,
     ms     |-> t % MsPerSecond]

\* getExistingEdit: new Date(editState.createdAt) -- back to epoch milliseconds
DateParse(iso) ==
    iso.day * MsPerDay + iso.hour * MsPerHour + iso.minute * MsPerMinute
        + iso.second * MsPerSecond + iso.ms

----------------------------------------------------------------------------
(* The persisted session record (edits.js saveEditState / clearEditState /  *)
(* getExistingEdit; the same functions are duplicated in play-store/state) *)

\* saveEditState that keeps a record already present for packageName
SaveEditStateKeepFirst(st, p, id, t) ==
    IF st[p] # NoEdit THEN st
    ELSE [st EXCEPT ![p] = [editId |-> id, createdAt |-> ToISOString(t)]]

\* saveEditState(packageName, editId): overwrite the record of packageName
SaveEditState(st, p, id, t) ==
    [st EXCEPT ![p] = [editId |-> id, createdAt |-> ToISOString(t)]]

\* clearEditState that deletes in memory and never writes the file back
ClearEditStateNoWrite(st, p) == st

\* clearEditState that deletes the whole edits object instead of one entry
ClearEditStateAll(st, p) ==
    IF st[p] # NoEdit THEN [q \in DOMAIN st |-> NoEdit] ELSE st

\* clearEditState(packageName): delete the record of packageName if present
ClearEditState(st, p) ==
    IF st[p] # NoEdit THEN [st EXCEPT ![p] = NoEdit] ELSE st

\* the expiry test with > in place of >=
IsExpiredStrict(rec, t) ==
    t - DateParse(rec.createdAt) > ExpiryHours * MsPerHour

\* getExistingEdit: hoursSinceCreation >= 1, with
\* hoursSinceCreation = (now - createdAt) / 3600000 (a real quotient, so the
\* comparison is the integer comparison of the millisecond difference)
IsExpired(rec, t) ==
    t - DateParse(rec.createdAt) >= ExpiryHours * MsPerHour

\* getExistingEdit(packageName): the stored id, or Null if absent or expired
GetExistingEdit(st, p, t) ==
    IF st[p] = NoEdit THEN Null
    ELSE IF IsExpired(st[p], t) THEN Null
    ELSE st[p].editId

----------------------------------------------------------------------------
(* The publishing API and the file system as seen by the code: the answers *)
(* the code tells apart.                                                   *)

\* an HTTP failure: its status code, and whether its message contains
\* the words "not found"
HttpErrors ==
    {[kind |-> "http", code |-> 404, nf |-> TRUE],
     [kind |-> "http", code |-> 400, nf |-> FALSE],
     [kind |-> "http", code |-> 403, nf |-> FALSE],
     [kind |-> "http", code |-> 500, nf |-> TRUE]}

\* answers to createEdit: the insert succeeds and the record is written; the
\* insert succeeds and writing state.json fails; the insert fails
CreateOutcomes == {[kind |-> "ok"], [kind |-> "saveFail"]} \cup HttpErrors

\* answers to a plain API request
ApiOutcomes == {[kind |-> "ok"]} \cup HttpErrors

\* answers to commitEdit: as ApiOutcomes, or the commit is accepted and
\* clearing state.json fails
CommitOutcomes == ApiOutcomes \cup {[kind |-> "clearFail"]}

\* one request as the run's log keeps it: the operation, the editId it was
\* sent with (for an insert: the id it returned) and how it was answered
Call(op, id, res) == [op |-> op, id |-> id, res |-> res]

\* how a plain request was answered
Answer(o) == IF o.kind = "ok" THEN "ok" ELSE "error"

\* the answer to a request whose failure the code swallows: the run goes on
\* the same way whatever it was, and the log does not keep it
Swallowed == "ignored"

\* createEdit that returns the new id without saving it
CreateEditNoSave(st, nid, t, p, out) ==
    CASE out.kind \in {"ok", "saveFail"} ->
            [store |-> st, next |-> nid + 1,
             ret |-> nid, threw |-> FALSE, nf |-> FALSE]
      [] OTHER ->
            [store |-> st, next |-> nid,
             ret |-> Null, threw |-> TRUE, nf |-> (out.code = 404 \/ out.nf)]

\* createEdit(packageName): edits.insert, then saveEditState; every failure
\* inside the try block is rethrown as a new Error without a code, whose
\* message contains "not found" for a 404 and otherwise embeds the original
\* message.  Returns the new store, the next platform id, the returned id
\* (Null when it threw) and whether the thrown message contains "not found".
CreateEdit(st, nid, t, p, out) ==
    CASE out.kind = "ok" ->
            [store |-> SaveEditState(st, p, nid, t), next |-> nid + 1,
             ret |-> nid, threw |-> FALSE, nf |-> FALSE]
      [] out.kind = "saveFail" ->
            [store |-> st, next |-> nid + 1,
             ret |-> Null, threw |-> TRUE, nf |-> FALSE]
      [] OTHER ->
            [store |-> st, next |-> nid,
             ret |-> Null, threw |-> TRUE, nf |-> (out.code = 404 \/ out.nf)]

\* the log entry of the edits.insert request made by a createEdit
InsertCall(r) ==
    Call("insert", r.ret,
         IF ~r.threw THEN "ok" ELSE IF r.nf THEN "notfound" ELSE "error")

\* the platform can hand out an id only while ids are left (model bound)
CanAnswer(out, nid) == out.kind \in {"ok", "saveFail"} => nid <= MaxEdits

----------------------------------------------------------------------------
(* The publisher: the order of the steps of publish-play-store and the     *)
(* state the run is in after each of them.                                 *)

\* the steps in the order the publisher runs them
StageOrder ==
    <<"checkApp", "ube_get", "ube_upload", "listing", "rating", "graphics",
      "pricing", "track", "distribution", "validate", "commit", "done">>

\* the step that follows step s
NextPc(s) ==
    LET i == CHOOSE k \in 1..Len(StageOrder) : StageOrder[k] = s
    IN  StageOrder[i + 1]

\* the states of a run, in order
PhaseOrder ==
    <<"Idle", "SessionReady", "Uploaded", "MetadataSet", "GraphicsSet",
      "DistributionSet", "Validated", "Committed">>

\* the state the run is in once step s has succeeded, given the state ph it
\* was in before
PhaseAfter(s, ph) ==
    CASE s = "ube_get"      -> "SessionReady"
      [] s = "ube_upload"   -> "Uploaded"
      [] s = "rating"       -> "MetadataSet"
      [] s = "graphics"     -> "GraphicsSet"
      [] s = "distribution" -> "DistributionSet"
      [] s = "validate"     -> "Validated"
      [] s = "commit"       -> "Committed"
      [] OTHER              -> ph

----------------------------------------------------------------------------
(* One publish run.                                                        *)

Stopped == {"idle", "done", "aborted", "crashed"}

NoLookup == [seen |-> FALSE]
NoResult == [returned |-> FALSE]

TypeOK ==
    /\ \A p \in Packages :
          store[p] = NoEdit \/
          (store[p].editId \in EditIds /\ DateParse(store[p].createdAt) <= now)
    /\ now \in Nat
    /\ nextEditId \in 1..(MaxEdits + 1)
    /\ editId \in {Null} \cup EditIds
    /\ pkg \in Packages
    /\ phase \in {PhaseOrder[i] : i \in 1..Len(PhaseOrder)} \cup {"Aborted"}

Init ==
    /\ store = [p \in Packages |-> NoEdit]
    /\ now = 0
    /\ nextEditId = 1
    /\ ticks = 0
    /\ runs = 0
    /\ pc = "idle"
    /\ pkg = "com.a"
    /\ editId = Null
    /\ versionCode = 0
    /\ phase = "Idle"
    /\ calls = <<>>
    /\ lookup = NoLookup
    /\ result = NoResult
    /\ lastStep = "init"
    /\ writer = Null
    /\ track = Null
    /\ setter = Null
    /\ metadata = Null
    /\ input = Null
    /\ local = Null

\* the steps of a run that read the clock (getExistingEdit, saveEditState)
ClockReaders == {"checkApp", "ube_get", "ube_create", "ube_retry"}

\* time passes.  Only the steps in ClockReaders read the clock, so an advance
\* made anywhere else (during a later stage, or between two runs) is the same
\* as one made just before the next of these steps.
Tick ==
    /\ ticks < MaxTicks
    /\ pc \in ClockReaders
    /\ \E d \in TickSteps : now' = now + d
    /\ ticks' = ticks + 1
    /\ UNCHANGED <<store, nextEditId, runs, pc, pkg, editId, versionCode,
                   phase, calls, lookup, result, lastStep>>

\* a new invocation of publish-play-store for package p
StartRun ==
    /\ pc \in Stopped
    /\ runs < MaxRuns
    /\ \E p \in Packages : pkg' = p
    /\ runs' = runs + 1
    /\ pc' = StageOrder[1]
    /\ editId' = Null
    /\ versionCode' = 0
    /\ phase' = PhaseOrder[1]
    /\ calls' = <<>>
    /\ lookup' = NoLookup
    /\ result' = NoResult
    /\ lastStep' = "start"
    /\ UNCHANGED <<store, now, nextEditId, ticks>>

\* the process is killed in the middle of a run: its memory is gone,
\* state.json stays as it is
Crash ==
    /\ pc \notin Stopped
    /\ pc' = "crashed"
    /\ editId' = Null
    /\ versionCode' = 0
    /\ phase' = PhaseOrder[1]
    /\ calls' = <<>>
    /\ lookup' = NoLookup
    /\ result' = NoResult
    /\ lastStep' = "crash"
    /\ UNCHANGED <<store, now, nextEditId, ticks, runs, pkg>>

\* an error unwinds to the publisher: the run ends in Aborted
Unwind(label) ==
    /\ pc' = "aborted"
    /\ phase' = "Aborted"
    /\ lastStep' = label

\* step s succeeded: the publisher goes on to the next step
GoOn(s, label) ==
    /\ pc' = NextPc(s)
    /\ phase' = PhaseAfter(s, phase)
    /\ lastStep' = label

\* Step 2, createPlayStoreApp(packageName, ...): checkPlayStoreAppExists
\* creates an edit; when that succeeds getPlayStoreApp creates another one
\* and reads the listing, swallowing every error.  A "not found" failure of
\* the first createEdit means the app does not exist yet and the run goes
\* on; any other failure is rethrown.
CreatePlayStoreApp ==
    /\ pc = "checkApp"
    /\ \E o1 \in CreateOutcomes, o2 \in CreateOutcomes :
        /\ CanAnswer(o1, nextEditId)
        /\ LET r1 == CreateEdit(store, nextEditId, now, pkg, o1)
               r2 == CreateEdit(r1.store, r1.next, now, pkg, o2)
           IN  IF r1.threw
               THEN /\ store' = r1.store
                    /\ nextEditId' = r1.next
                    /\ calls' = Append(calls, InsertCall(r1))
                    /\ IF r1.nf THEN GoOn("checkApp", "check_absent")
                       ELSE Unwind("check_throw")
               ELSE /\ CanAnswer(o2, r1.next)
                    /\ store' = r2.store
                    /\ nextEditId' = r2.next
                    /\ calls' = calls \o <<InsertCall(r1), InsertCall(r2)>> \o
                          (IF r2.threw THEN <<>>
                           ELSE <<Call("listings.get", r2.ret, Swallowed)>>)
                    /\ GoOn("checkApp", "check_exists")
    /\ UNCHANGED <<now, ticks, runs, pkg, editId, versionCode, lookup, result>>

\* the lookup that saves the resumed session again, restarting its hour
UbeGetExistingRefresh ==
    /\ pc = "ube_get"
    /\ LET id == GetExistingEdit(store, pkg, now)
       IN  /\ editId' = id
           /\ lookup' = [seen |-> TRUE, rec |-> store[pkg], at |-> now,
                         ret |-> id, n |-> Len(calls)]
           /\ store' = IF id # Null THEN SaveEditState(store, pkg, id, now)
                       ELSE store
           /\ IF id # Null THEN GoOn("ube_get", "get_existing")
              ELSE /\ pc' = "ube_create"
                   /\ phase' = phase
                   /\ lastStep' = "get_none"
    /\ UNCHANGED <<now, nextEditId, ticks, runs, pkg, versionCode,
                   calls, result>>

\* uploadBuildWithEdit, line 131: let editId = await getExistingEdit(packageName)
UbeGetExisting ==
    /\ pc = "ube_get"
    /\ LET id == GetExistingEdit(store, pkg, now)
       IN  /\ editId' = id
           /\ lookup' = [seen |-> TRUE, rec |-> store[pkg], at |-> now,
                         ret |-> id, n |-> Len(calls)]
           /\ IF id # Null THEN GoOn("ube_get", "get_existing")
              ELSE /\ pc' = "ube_create"
                   /\ phase' = phase
                   /\ lastStep' = "get_none"
    /\ UNCHANGED <<store, now, nextEditId, ticks, runs, pkg, versionCode,
                   calls, result>>

\* uploadBuildWithEdit that takes every failure of createEdit for "not
\* found" and goes on to the second createEdit
UbeCreateEditForgiving ==
    /\ pc = "ube_create"
    /\ \E o \in CreateOutcomes :
        /\ CanAnswer(o, nextEditId)
        /\ LET r == CreateEdit(store, nextEditId, now, pkg, o)
           IN  /\ store' = r.store
               /\ nextEditId' = r.next
               /\ editId' = r.ret
               /\ calls' = Append(calls, InsertCall(r))
               /\ IF ~r.threw THEN GoOn("ube_get", "create_ok")
                  ELSE /\ pc' = "ube_retry"
                       /\ phase' = phase
                       /\ lastStep' = "create_notfound"
    /\ UNCHANGED <<now, ticks, runs, pkg, versionCode, lookup, result>>

\* uploadBuildWithEdit, lines 133-152: createEdit; on an error whose message
\* contains "not found" go on to the second createEdit, otherwise rethrow
UbeCreateEdit ==
    /\ pc = "ube_create"
    /\ \E o \in CreateOutcomes :
        /\ CanAnswer(o, nextEditId)
        /\ LET r == CreateEdit(store, nextEditId, now, pkg, o)
           IN  /\ store' = r.store
               /\ nextEditId' = r.next
               /\ editId' = r.ret
               /\ calls' = Append(calls, InsertCall(r))
               /\ IF ~r.threw THEN GoOn("ube_get", "create_ok")
                  ELSE IF r.nf
                       THEN /\ pc' = "ube_retry"
                            /\ phase' = phase
                            /\ lastStep' = "create_notfound"
                       ELSE Unwind("create_throw")
    /\ UNCHANGED <<now, ticks, runs, pkg, versionCode, lookup, result>>

\* uploadBuildWithEdit, lines 143-148: the second createEdit, made at once and
\* before the upload; its failure is swallowed and editId stays undefined
UbeRetryCreateEdit ==
    /\ pc = "ube_retry"
    /\ \E o \in CreateOutcomes :
        /\ CanAnswer(o, nextEditId)
        /\ LET r == CreateEdit(store, nextEditId, now, pkg, o)
           IN  /\ store' = r.store
               /\ nextEditId' = r.next
               /\ editId' = r.ret
               /\ calls' = Append(calls, InsertCall(r))
               /\ GoOn("ube_get", IF r.threw THEN "retry_failed" ELSE "retry_ok")
    /\ UNCHANGED <<now, ticks, runs, pkg, versionCode, lookup, result>>

\* the file extensions uploadBuild tells apart
Extensions == {".aab", ".apk", ".txt"}

\* uploadBuildWithEdit that catches a failed upload, logs it and returns the
\* session id alone
UbeUploadBuildSwallows ==
    /\ pc = "ube_upload"
    /\ \E ext \in Extensions, o \in ApiOutcomes, v \in VersionCodes :
        IF ext \notin {".aab", ".apk"}
        THEN /\ calls' = calls
             /\ UNCHANGED <<versionCode, result>>
             /\ Unwind("upload_unsupported")
        ELSE /\ calls' = Append(calls, Call("upload", editId, Answer(o)))
             /\ IF o.kind = "ok"
                THEN /\ versionCode' = v
                     /\ result' = [returned |-> TRUE, versionCode |-> v,
                                   editId |-> editId]
                     /\ GoOn("ube_upload", "upload_ok")
                ELSE /\ UNCHANGED <<versionCode, result>>
                     /\ GoOn("ube_upload",
                             IF o.code = 400 THEN "upload_invalid"
                             ELSE "upload_failed")
    /\ UNCHANGED <<store, now, nextEditId, ticks, runs, pkg, editId, lookup>>

\* uploadBuildWithEdit, lines 156-161, with uploadBuild / uploadAAB /
\* uploadAPK: an unsupported extension throws before any request; otherwise
\* one upload request is sent with the editId at hand, and the result of a
\* successful upload is returned together with that editId
UbeUploadBuild ==
    /\ pc = "ube_upload"
    /\ \E ext \in Extensions, o \in ApiOutcomes, v \in VersionCodes :
        IF ext \notin {".aab", ".apk"}
        THEN /\ calls' = calls
             /\ UNCHANGED <<versionCode, result>>
             /\ Unwind("upload_unsupported")
        ELSE /\ calls' = Append(calls, Call("upload", editId, Answer(o)))
             /\ IF o.kind = "ok"
                THEN /\ versionCode' = v
                     /\ result' = [returned |-> TRUE, versionCode |-> v,
                                   editId |-> editId]
                     /\ GoOn("ube_upload", "upload_ok")
                ELSE /\ UNCHANGED <<versionCode, result>>
                     /\ Unwind(IF o.code = 400 THEN "upload_invalid"
                               ELSE "upload_failed")
    /\ UNCHANGED <<store, now, nextEditId, ticks, runs, pkg, editId, lookup>>

\* what a stage leaves alone: the session store and the run's inputs
StageFrame ==
    UNCHANGED <<store, now, nextEditId, ticks, runs, pkg, editId,
                versionCode, lookup, result>>

\* the stage sent request op with the run's editId, answered o
Sent(op, o) == calls' = Append(calls, Call(op, editId, Answer(o)))

\* the stage sent request op with the run's editId and swallows its failure
SentBestEffort(op) == calls' = Append(calls, Call(op, editId, Swallowed))

\* setListingMetadata: validateMetadata throws before any request; a failed
\* listings.update is rethrown; after a successful one setAppDetails sends
\* edits.get (category and privacyPolicyUrl are required fields of the
\* configuration) and swallows its failure
SetListingMetadata ==
    /\ pc = "listing"
    /\ \/ calls' = calls /\ Unwind("listing_invalid")
       \/ \E o \in ApiOutcomes :
            IF o.kind = "ok"
            THEN /\ calls' = calls \o <<Call("listings.update", editId, "ok"),
                                        Call("edits.get", editId, Swallowed)>>
                 /\ GoOn("listing", "listing_ok")
            ELSE /\ Sent("listings.update", o)
                 /\ Unwind("listing_failed")
    /\ StageFrame

\* setContentRating: one contentRatings.update; a 400 answer falls back to
\* the alternative mapping, which sends nothing; any other failure is
\* rethrown, and the publisher logs it as a warning and goes on
SetContentRating ==
    /\ pc = "rating"
    /\ \E o \in ApiOutcomes :
        /\ SentBestEffort("contentRatings.update")
        /\ GoOn("rating", IF o.kind = "ok" THEN "rating_ok" ELSE "rating_warning")
    /\ StageFrame

\* uploadScreenshotsFromDirectory / uploadAppIcon / uploadFeatureGraphic:
\* any failed image upload is rethrown
UploadGraphics ==
    /\ pc = "graphics"
    /\ \E o \in ApiOutcomes :
        /\ Sent("images.upload", o)
        /\ IF o.kind = "ok" THEN GoOn("graphics", "graphics_ok")
           ELSE Unwind("graphics_failed")
    /\ StageFrame

\* setPricing that logs a failed pricing.update and returns
SetPricingSwallows ==
    /\ pc = "pricing"
    /\ \E o \in ApiOutcomes :
        /\ Sent("pricing.update", o)
        /\ GoOn("pricing", IF o.kind = "ok" THEN "pricing_ok" ELSE "pricing_failed")
    /\ StageFrame

\* setPricing: one pricing.update; a failure is rethrown
SetPricing ==
    /\ pc = "pricing"
    /\ \E o \in ApiOutcomes :
        /\ Sent("pricing.update", o)
        /\ IF o.kind = "ok" THEN GoOn("pricing", "pricing_ok")
           ELSE Unwind("pricing_failed")
    /\ StageFrame

\* setReleaseTrack: an invalid track throws before any request; tracks.get
\* then tracks.update, a failure of either is rethrown
SetReleaseTrack ==
    /\ pc = "track"
    /\ \/ calls' = calls /\ Unwind("track_invalid")
       \/ \E o1 \in ApiOutcomes, o2 \in ApiOutcomes :
            IF o1.kind # "ok"
            THEN /\ Sent("tracks.get", o1)
                 /\ Unwind("track_failed")
            ELSE /\ calls' = calls \o
                        <<Call("tracks.get", editId, "ok"),
                          Call("tracks.update", editId, Answer(o2))>>
                 /\ IF o2.kind = "ok" THEN GoOn("track", "track_ok")
                    ELSE Unwind("track_failed")
    /\ StageFrame

\* setDistribution: one edits.get; its failure is turned into a result
SetDistribution ==
    /\ pc = "distribution"
    /\ \E o \in ApiOutcomes :
        /\ SentBestEffort("edits.get")
        /\ GoOn("distribution",
                IF o.kind = "ok" THEN "distribution_ok" ELSE "distribution_warning")
    /\ StageFrame

\* validateEdit that answers { valid: true } when edits.validate failed
ValidateEditSwallows ==
    /\ pc = "validate"
    /\ \E o \in ApiOutcomes :
        /\ Sent("validate", o)
        /\ GoOn("validate", IF o.kind = "ok" THEN "validate_ok" ELSE "validate_failed")
    /\ StageFrame

\* validateEdit(packageName, editId): one edits.validate; a failure is
\* rethrown as "Edit validation failed"
ValidateEdit ==
    /\ pc = "validate"
    /\ \E o \in ApiOutcomes :
        /\ Sent("validate", o)
        /\ IF o.kind = "ok" THEN GoOn("validate", "validate_ok")
           ELSE Unwind("validate_failed")
    /\ StageFrame

\* commitEdit that clears the record before it knows the answer
CommitStoreEager(st, p, o) == ClearEditState(st, p)

\* commitEdit that leaves the record in state.json
CommitStoreKeeps(st, p, o) == st

\* what commitEdit does to state.json for answer o: clearEditState runs only
\* after edits.commit answered, and a failed write leaves the file as it was
CommitStore(st, p, o) ==
    IF o.kind = "ok" THEN ClearEditState(st, p) ELSE st

\* commitEdit(packageName, editId): one edits.commit, then clearEditState;
\* every failure inside the try block is rethrown (a 400 with the advice to
\* validate first)
CommitEdit ==
    /\ pc = "commit"
    /\ \E o \in CommitOutcomes :
        /\ store' = CommitStore(store, pkg, o)
        /\ calls' = Append(calls, Call("commit", editId,
                         IF o.kind \in {"ok", "clearFail"} THEN "ok" ELSE "error"))
        /\ IF o.kind = "ok" THEN GoOn("commit", "commit_ok")
           ELSE Unwind(IF o.kind = "clearFail" THEN "commit_clear_failed"
                       ELSE IF o.code = 400 THEN "commit_rejected"
                       ELSE "commit_failed")
    /\ UNCHANGED <<now, nextEditId, ticks, runs, pkg, editId, versionCode,
                   lookup, result>>

Next ==
    \/ Tick /\ UNCHANGED others
    \/ StartRun /\ UNCHANGED others
    \/ Crash /\ UNCHANGED others
    \/ CreatePlayStoreApp /\ UNCHANGED others
    \/ UbeGetExisting /\ UNCHANGED others
    \/ UbeCreateEdit /\ UNCHANGED others
    \/ UbeRetryCreateEdit /\ UNCHANGED others
    \/ UbeUploadBuild /\ UNCHANGED others
    \/ SetListingMetadata /\ UNCHANGED others
    \/ SetContentRating /\ UNCHANGED others
    \/ UploadGraphics /\ UNCHANGED others
    \/ SetPricing /\ UNCHANGED others
    \/ SetReleaseTrack /\ UNCHANGED others
    \/ SetDistribution /\ UNCHANGED others
    \/ ValidateEdit /\ UNCHANGED others
    \/ CommitEdit /\ UNCHANGED others

Spec == Init /\ [][Next]_vars

----------------------------------------------------------------------------
(* Properties of the edit session and of the publish run.                  *)

\* the age, at the time of the lookup, of the record getExistingEdit found
Age(l) == l.at - DateParse(l.rec.createdAt)

\* getExistingEdit of this run found a record at least one hour old
SawExpired == lookup.seen /\ lookup.rec # NoEdit /\ Age(lookup) >= MsPerHour

\* getExistingEdit of this run found a record less than one hour old
SawFresh == lookup.seen /\ lookup.rec # NoEdit /\ Age(lookup) < MsPerHour

\* the requests of the run that carry an editId into a stage
StageOps ==
    {"upload", "listings.update", "contentRatings.update", "images.upload",
     "pricing.update", "tracks.update", "validate", "commit"}

\* the positions in the log of the requests sent after the lookup
AfterLookup == (lookup.n + 1)..Len(calls)

\* C1: a record whose age is one hour or more (exactly one hour included)
\* is not resumed: getExistingEdit returns no session, the next request of
\* uploadBuildWithEdit is an edits.insert, and no request sent after the
\* lookup carries the id of the expired record.
C1_ExpiredNeverReused ==
    SawExpired =>
        /\ lookup.ret = Null
        /\ pc # "ube_create" =>
              /\ Len(calls) > lookup.n
              /\ calls[lookup.n + 1].op = "insert"
        /\ \A i \in AfterLookup : calls[i].id # lookup.rec.editId

\* C1 witness: a record exactly one hour old was found, a new session was
\* created and the upload was made with it
C1_Witness ==
    /\ SawExpired
    /\ Age(lookup) = MsPerHour
    /\ pc = "listing"
    /\ editId # Null

\* C2: once commitEdit has returned successfully the store holds no record
\* for the package of the run.
C2_CommitClearsRecord ==
    lastStep = "commit_ok" => store[pkg] = NoEdit

\* C2 witness: a commit succeeded for a session that had a record, while the
\* other package still has one
C2_Witness ==
    /\ lastStep = "commit_ok"
    /\ editId # Null
    /\ \E q \in Packages : q # pkg /\ store[q] # NoEdit

\* C3: when validateEdit fails or the platform refuses the commit, the
\* operation throws and the record of the package is what it was before the
\* call.
C3_FailureKeepsRecord ==
    [][lastStep' \in {"validate_failed", "commit_rejected", "commit_failed"}
         /\ pc \in {"validate", "commit"}
       => pc' = "aborted" /\ store' = store]_vars

\* C3 witness: the platform refused the commit and the record of the
\* session is still in the store
C3_Witness ==
    /\ lastStep = "commit_rejected"
    /\ editId # Null
    /\ store[pkg] # NoEdit
    /\ store[pkg].editId = editId

C5_RemovedOnlyByCommit ==
    [][\A p \in Packages :
         store'[p] # store[p] =>
            /\ p = pkg
            /\ \/ store'[p] = NoEdit /\ pc = "commit" /\ lastStep' = "commit_ok"
               \/ /\ store'[p] # NoEdit
                  /\ store'[p].editId >= nextEditId
                  /\ pc \in {"checkApp", "ube_create", "ube_retry"}]_vars

\* C5 witness: an expired record was found and is still in the store, the
\* session creation that followed having failed
C5_Witness ==
    /\ SawExpired
    /\ store[pkg] = lookup.rec
    /\ lastStep = "create_throw"

\* C6: a record less than one hour old is resumed: getExistingEdit returns
\* exactly its id, uploadBuildWithEdit sends no edits.insert, and the
\* record stays as it was (until a successful commit removes it).
C6_FreshResumed ==
    SawFresh =>
        /\ lookup.ret = lookup.rec.editId
        /\ \A i \in AfterLookup : calls[i].op # "insert"
        /\ lastStep # "commit_ok" => store[pkg] = lookup.rec

\* C6 witness: a record one millisecond short of an hour was resumed and
\* the run has reached validation with it
C6_Witness ==
    /\ SawFresh
    /\ Age(lookup) = MsPerHour - 1
    /\ pc = "validate"

\* the position in the log of the first edits.insert of uploadBuildWithEdit
FirstOpen == lookup.n + 1

\* the first session opening of uploadBuildWithEdit was answered "not found"
NotFoundOnOpen ==
    /\ lookup.seen
    /\ Len(calls) >= FirstOpen
    /\ calls[FirstOpen].op = "insert"
    /\ calls[FirstOpen].res = "notfound"

\* C7: when the first session opening is answered "not found", no further
\* opening is attempted before the upload, and once the upload has
\* succeeded exactly one more opening has been attempted, after it.
C7_RetryAfterUpload ==
    NotFoundOnOpen =>
        /\ \A i \in AfterLookup :
              i > FirstOpen /\ calls[i].op = "insert"
              => \E u \in (FirstOpen + 1)..(i - 1) :
                      calls[u].op = "upload" /\ calls[u].res = "ok"
        /\ result.returned =>
              Cardinality({i \in AfterLookup :
                              i > FirstOpen /\ calls[i].op = "insert"}) = 1

\* C8: a result returned by uploadBuildWithEdit holds a version code and a
\* session id, and the session id is the one of the record in the store.
C8_ResultHasSession ==
    result.returned /\ lastStep = "upload_ok" =>
        /\ result.versionCode \in VersionCodes
        /\ result.editId # Null
        /\ store[pkg] # NoEdit
        /\ store[pkg].editId = result.editId

\* the positions in the log of the commit requests
Commits == {i \in 1..Len(calls) : calls[i].op = "commit"}

\* C9: a commit request is sent only after a validate request for the same
\* session was answered without error, and a run sends at most one commit
\* request.
C9_CommitAfterValidateOnce ==
    /\ \A i \in Commits :
          \E j \in 1..(i - 1) :
              /\ calls[j].op = "validate"
              /\ calls[j].res = "ok"
              /\ calls[j].id = calls[i].id
    /\ Cardinality(Commits) <= 1

\* C9 witness: a commit failed and the run ended having sent it once
C9_Witness ==
    /\ lastStep = "commit_failed"
    /\ pc = "aborted"
    /\ Cardinality(Commits) = 1

\* the outcomes of a step that are fatal to the run
FatalSteps ==
    {"check_throw", "create_throw", "upload_unsupported", "upload_invalid",
     "upload_failed", "listing_invalid", "listing_failed", "graphics_failed",
     "pricing_failed", "track_invalid", "track_failed", "validate_failed",
     "commit_rejected", "commit_failed", "commit_clear_failed"}

PhaseIndex(ph) == CHOOSE k \in 1..Len(PhaseOrder) : PhaseOrder[k] = ph

----------------------------------------------------------------------------
(* The dry run: publish-play-store --dry-run makes the existence check of  *)
(* step 2 and stops before the upload.                                     *)

\* the publisher stops after the existence check
DryRunStop ==
    /\ pc = "ube_get"
    /\ pc' = "done"
    /\ lastStep' = "dry_stop"
    /\ UNCHANGED <<store, now, nextEditId, ticks, runs, pkg, editId,
                   versionCode, phase, calls, lookup, result>>

NextDryRun ==
    \/ Tick /\ UNCHANGED others
    \/ StartRun /\ UNCHANGED others
    \/ CreatePlayStoreApp /\ UNCHANGED others
    \/ DryRunStop /\ UNCHANGED others

SpecDryRun == Init /\ [][NextDryRun]_vars

\* C11: a dry run sends no upload, listing, rating, image, pricing, track,
\* validate or commit request, and its existence check creates no session
\* on the platform and leaves the session store as it was.
C11_DryRunNoMutation ==
    [][/\ \A i \in 1..Len(calls') : calls'[i].op \notin StageOps
       /\ pc = "checkApp" /\ pc' # "checkApp"
             => /\ store' = store
                /\ nextEditId' = nextEditId
                /\ \A i \in 1..Len(calls') : calls'[i].op # "insert"]_vars

\* the outcomes of a failed binary upload
UploadFailures == {"upload_invalid", "upload_failed"}

\* C12: when the upload request fails, uploadBuildWithEdit throws (the run
\* is aborted, nothing is returned), the session store is what it was
\* before the upload, and the failed upload is the last request of the run.
C12_UploadFailureKeepsRecord ==
    [][/\ pc = "ube_upload" /\ lastStep' \in UploadFailures
             => /\ pc' = "aborted"
                /\ phase' = "Aborted"
                /\ ~result'.returned
                /\ store' = store
       /\ lastStep \in UploadFailures
             => /\ calls[Len(calls)].op = "upload"
                /\ calls[Len(calls)].res = "error"
                /\ calls' = calls \/ pc' = "checkApp"]_vars

\* C12 witness: the upload was rejected while the store holds the record of
\* the session it was sent with
C12_Witness ==
    /\ lastStep = "upload_invalid"
    /\ editId # Null
    /\ store[pkg] # NoEdit
    /\ store[pkg].editId = editId

\* the positions in the log after the step of the createEdit calls that
\* returned an id during the step
Created == {i \in (Len(calls) + 1)..Len(calls') :
               calls'[i].op = "insert" /\ calls'[i].res = "ok"}

\* the last of a non-empty set of positions
Last(S) == CHOOSE i \in S : \A j \in S : j <= i

----------------------------------------------------------------------------
(* Concurrent invocations on state.json.  saveEditState and                *)
(* clearEditState read the whole file (readJsonFile), change the entry of  *)
(* their own package in memory and write the whole file back               *)
(* (writeJsonFile); the read and the write are separate awaits, and two    *)
(* invocations are two processes.  One invocation per package at a time.   *)

\* state-file operations one invocation may make (model bound)
MaxWrites == 2

\* an invocation between two operations: state is the object readJsonFile
\* returned, editId the id createEdit is saving, wrote the record of its
\* package as its last completed operation left it, n its operations so far
IdleWriter ==
    [pc |-> "idle", state |-> Null, editId |-> Null, wrote |-> NoEdit, n |-> 0]

InitStateFile ==
    /\ store = [p \in Packages |-> NoEdit]
    /\ now = 0
    /\ nextEditId = 1
    /\ ticks = 0
    /\ runs = 0
    /\ pc = "idle"
    /\ pkg = "com.a"
    /\ editId = Null
    /\ versionCode = 0
    /\ phase = "Idle"
    /\ calls = <<>>
    /\ lookup = NoLookup
    /\ result = NoResult
    /\ lastStep = "init"
    /\ writer = [p \in Packages |-> IdleWriter]
    /\ track = Null
    /\ setter = Null
    /\ metadata = Null
    /\ input = Null
    /\ local = Null

\* what the operations on state.json leave alone
StateFileFrame ==
    UNCHANGED <<now, ticks, runs, pc, pkg, editId, versionCode, phase, calls,
                lookup, result, lastStep, track, setter, metadata, input,
                local>>

\* createEdit of the invocation for p: edits.insert returned an id;
\* saveEditState, line 130: const state = await readJsonFile(...) || {}
SaveEditStateRead(p) ==
    /\ writer[p].pc = "idle"
    /\ writer[p].n < MaxWrites
    /\ nextEditId <= MaxEdits
    /\ writer' = [writer EXCEPT ![p].pc = "save_write",
                                ![p].state = store,
                                ![p].editId = nextEditId,
                                ![p].n = @ + 1]
    /\ nextEditId' = nextEditId + 1
    /\ store' = store
    /\ StateFileFrame

\* saveEditState, lines 139-144: set the entry of p in the object read and
\* write the object back
SaveEditStateWrite(p) ==
    /\ writer[p].pc = "save_write"
    /\ store' = SaveEditState(writer[p].state, p, writer[p].editId, now)
    /\ writer' = [writer EXCEPT ![p].pc = "idle",
                                ![p].state = Null,
                                ![p].editId = Null,
                                ![p].wrote = store'[p]]
    /\ nextEditId' = nextEditId
    /\ StateFileFrame

\* commitEdit of the invocation for p: edits.commit was accepted;
\* clearEditState, lines 151-153: read the file; nothing is written when
\* the object read has no entry for p
ClearEditStateRead(p) ==
    /\ writer[p].pc = "idle"
    /\ writer[p].n < MaxWrites
    /\ writer' = [writer EXCEPT
                    ![p].pc = IF store[p] # NoEdit THEN "clear_write" ELSE "idle",
                    ![p].state = IF store[p] # NoEdit THEN store ELSE Null,
                    ![p].n = @ + 1]
    /\ UNCHANGED <<store, nextEditId>>
    /\ StateFileFrame

\* clearEditState, lines 154-155: delete the entry of p from the object read
\* and write the object back
ClearEditStateWrite(p) ==
    /\ writer[p].pc = "clear_write"
    /\ store' = ClearEditState(writer[p].state, p)
    /\ writer' = [writer EXCEPT ![p].pc = "idle",
                                ![p].state = Null,
                                ![p].wrote = NoEdit]
    /\ nextEditId' = nextEditId
    /\ StateFileFrame

NextStateFile ==
    \/ \E p \in Packages : SaveEditStateRead(p)
    \/ \E p \in Packages : SaveEditStateWrite(p)
    \/ \E p \in Packages : ClearEditStateRead(p)
    \/ \E p \in Packages : ClearEditStateWrite(p)

SpecStateFile == InitStateFile /\ [][NextStateFile]_vars

\* C14: with one invocation per package at a time, once the invocations
\* are between operations the record of each package in state.json is the
\* one its own invocation wrote last (none after a clear): no invocation
\* has erased or brought back the record of the other package.
C14_TargetsIndependent ==
    (\A p \in Packages : writer[p].pc = "idle")
        => \A p \in Packages : store[p] = writer[p].wrote

----------------------------------------------------------------------------
(* setReleaseTrack, and concurrent executions of it.  The platform keeps   *)
(* the release list of each track of the session: tracks.get returns it,   *)
(* tracks.update replaces it with the list of the request.                 *)

\* concurrent runs (model bound)
MaxSetters == 2
\* executions of setReleaseTrack made in all: the first of each run and
\* those of its resumptions (model bound)
MaxExecs == 3

Runs == 1..MaxSetters

\* metadata.js:337  const validTracks = [...]
ValidTracks == {"internal", "alpha", "beta", "production"}

\* the track arguments tried: two valid ones and two that are not
TrackArgs == {"internal", "production", "staging", "Internal"}

\* the releaseNotes arguments tried: none (the empty string, which is as
\* false as the default null) and a text
ReleaseNotes == {"", "notes"}

\* metadata.js:352-365  const newRelease = { versionCodes:
\* [versionCode.toString()], status: 'completed' }, with releaseNotes when
\* the argument is given
NewRelease(v, notes) ==
    IF notes = ""
    THEN [versionCodes |-> <<ToString(v)>>, status |-> "completed"]
    ELSE [versionCodes |-> <<ToString(v)>>, status |-> "completed",
          releaseNotes |-> <<[language |-> "en-US", text |-> notes]>>]

\* metadata.js:351  const releases = currentReleases.data?.releases || []
ReleasesOf(data) ==
    IF "releases" \in DOMAIN data THEN data.releases ELSE <<>>

\* the track resource the platform holds after tracks.update with list body
Track(t, body) == [track |-> t, releases |-> body]

\* the track resource of a track that never had a release
EmptyTrack(t) == [track |-> t]

\* a run that has not come to setReleaseTrack yet: its arguments (each run
\* has its own version code, the platform giving every upload its own), the
\* local list releases, the requests of its current execution and the
\* number of its executions
IdleSetter(r, t, n) ==
    [pc |-> "idle", track |-> t, versionCode |-> r, releaseNotes |-> n,
     releases |-> <<>>, calls |-> <<>>, execs |-> 0]

\* the runs work in one session and are given the same track and notes
InitTrack ==
    /\ store = [p \in Packages |-> NoEdit]
    /\ now = 0
    /\ nextEditId = 1
    /\ ticks = 0
    /\ runs = 0
    /\ pc = "idle"
    /\ pkg = "com.a"
    /\ editId = nextEditId
    /\ versionCode = 0
    /\ phase = "Idle"
    /\ calls = <<>>
    /\ lookup = NoLookup
    /\ result = NoResult
    /\ lastStep = "init"
    /\ writer = Null
    /\ track = [t \in ValidTracks |-> EmptyTrack(t)]
    /\ \E t \in TrackArgs, n \in ReleaseNotes :
          setter = [r \in Runs |-> IdleSetter(r, t, n)]
    /\ metadata = Null
    /\ input = Null
    /\ local = Null

\* what setReleaseTrack leaves alone
TrackFrame ==
    UNCHANGED <<store, now, nextEditId, ticks, pc, pkg, editId,
                versionCode, phase, calls, lookup, result, lastStep, writer,
                metadata, input, local>>

\* a run comes to setReleaseTrack: for the first time, or again after it
\* was resumed with the same session and the same version code
CanExecute(r) ==
    /\ setter[r].pc \in {"idle", "done", "threw"}
    /\ runs < MaxExecs

\* setReleaseTrack that asks for the releases before it looks at the track
\* name
SetReleaseTrackGetLate(r) ==
    /\ CanExecute(r)
    /\ runs' = runs + 1
    /\ \E o \in ApiOutcomes :
         LET t == setter[r].track
             fine == t \in ValidTracks /\ o.kind = "ok"
         IN  setter' = [setter EXCEPT
                 ![r].execs = @ + 1,
                 ![r].calls = <<Call("tracks.get", editId, Answer(o))>>,
                 ![r].pc = IF fine THEN "got" ELSE "threw",
                 ![r].releases = IF fine THEN ReleasesOf(track[t]) ELSE <<>>]
    /\ track' = track
    /\ TrackFrame

\* setReleaseTrack, lines 337-351: an invalid track name throws before any
\* request; otherwise tracks.get, whose failure is rethrown, and the
\* releases of the answer become the local list
SetReleaseTrackGet(r) ==
    /\ CanExecute(r)
    /\ runs' = runs + 1
    /\ \E o \in ApiOutcomes :
         LET t == setter[r].track
         IN  IF t \notin ValidTracks
             THEN setter' = [setter EXCEPT ![r].execs = @ + 1,
                                           ![r].calls = <<>>,
                                           ![r].pc = "threw",
                                           ![r].releases = <<>>]
             ELSE setter' = [setter EXCEPT
                     ![r].execs = @ + 1,
                     ![r].calls = <<Call("tracks.get", editId, Answer(o))>>,
                     ![r].pc = IF o.kind = "ok" THEN "got" ELSE "threw",
                     ![r].releases = IF o.kind = "ok"
                                     THEN ReleasesOf(track[t]) ELSE <<>>]
    /\ track' = track
    /\ TrackFrame

\* what tracks.update with list body does for run r when answered o
Updated(r, body, o) ==
    /\ setter' = [setter EXCEPT
           ![r].calls = Append(@, Call("tracks.update", editId, Answer(o))),
           ![r].pc = IF o.kind = "ok" THEN "done" ELSE "threw"]
    /\ track' = IF o.kind = "ok"
                THEN [track EXCEPT ![setter[r].track] =
                                       Track(setter[r].track, body)]
                ELSE track
    /\ runs' = runs
    /\ TrackFrame

\* setReleaseTrack that sends the new release alone
SetReleaseTrackUpdateOnlyNew(r) ==
    /\ setter[r].pc = "got"
    /\ \E o \in ApiOutcomes :
         Updated(r, <<NewRelease(setter[r].versionCode,
                                 setter[r].releaseNotes)>>, o)

\* setReleaseTrack that appends to the list the platform holds at the time
\* of the update
SetReleaseTrackUpdateAtomic(r) ==
    /\ setter[r].pc = "got"
    /\ \E o \in ApiOutcomes :
         Updated(r, Append(ReleasesOf(track[setter[r].track]),
                           NewRelease(setter[r].versionCode,
                                      setter[r].releaseNotes)), o)

\* setReleaseTrack, lines 352-381: releases.push(newRelease), then
\* tracks.update with the whole list, whose failure is rethrown
SetReleaseTrackUpdate(r) ==
    /\ setter[r].pc = "got"
    /\ \E o \in ApiOutcomes :
         Updated(r, Append(setter[r].releases,
                           NewRelease(setter[r].versionCode,
                                      setter[r].releaseNotes)), o)

NextTrack ==
    \/ \E r \in Runs : SetReleaseTrackGet(r)
    \/ \E r \in Runs : SetReleaseTrackUpdate(r)

SpecTrack == InitTrack /\ [][NextTrack]_vars

\* list l holds a release of version code v
Has(l, v) == \E i \in 1..Len(l) : l[i].versionCodes = <<ToString(v)>>

\* the releases the platform holds for the track the runs were given
Held == ReleasesOf(track[setter[1].track])

\* runs a and b have each executed setReleaseTrack once, to the end, on the
\* same track, and each read the list before the other had written it
Overlapped(a, b) ==
    /\ a # b
    /\ setter[a].pc = "done" /\ setter[a].execs = 1
    /\ setter[b].pc = "done" /\ setter[b].execs = 1
    /\ setter[a].track = setter[b].track
    /\ ~Has(setter[a].releases, setter[b].versionCode)
    /\ ~Has(setter[b].releases, setter[a].versionCode)

\* C15: when two runs have both read the release list of the track before
\* either wrote it back, both updates are accepted and the list the
\* platform holds afterwards lacks the release of one of them.
C15_LostUpdate ==
    \A a, b \in Runs :
        Overlapped(a, b) =>
            ~(Has(Held, setter[a].versionCode)
                /\ Has(Held, setter[b].versionCode))

\* C15 witness: two runs overlapped, both finished without error, and the
\* list holds the release of run 2 only
C15_Witness ==
    /\ Overlapped(1, 2)
    /\ Has(Held, setter[2].versionCode)
    /\ ~Has(Held, setter[1].versionCode)

\* C16: the list sent by tracks.update is the list tracks.get returned, in
\* the same order, followed by one release whose versionCodes is the
\* version code of the run as a string and whose status is "completed";
\* when no other run wrote in between this is the platform's current list
\* with the one release appended.
C16_AppendsOneRelease ==
    [][\A r \in Runs :
         setter[r].pc = "got" /\ setter'[r].pc = "done" =>
            LET t == setter[r].track
                old == setter[r].releases
                new == ReleasesOf(track'[t])
            IN  /\ t \in ValidTracks
                /\ Len(new) = Len(old) + 1
                /\ SubSeq(new, 1, Len(old)) = old
                /\ new[Len(new)].versionCodes
                       = <<ToString(setter[r].versionCode)>>
                /\ new[Len(new)].status = "completed"
                /\ old = ReleasesOf(track[t])
                       => new = Append(ReleasesOf(track[t]), new[Len(new)])
                /\ \A u \in ValidTracks \ {t} : track'[u] = track[u]]_vars

\* C16 witness: a release was appended to a list that already held one of
\* another run, which is still first
C16_Witness ==
    /\ setter[2].pc = "done"
    /\ Len(Held) = 2
    /\ Has(<<Held[1]>>, setter[1].versionCode)
    /\ Has(<<Held[2]>>, setter[2].versionCode)
    /\ "releaseNotes" \in DOMAIN Held[2]

\* C17: however often a run executes setReleaseTrack with its version code,
\* the release list holds at most one release of that version code.
C17_RerunIdempotent ==
    \A t \in ValidTracks :
        \A i, j \in 1..Len(ReleasesOf(track[t])) :
            i # j => ReleasesOf(track[t])[i].versionCodes
                        # ReleasesOf(track[t])[j].versionCodes

\* C18: an execution given a track name outside internal, alpha, beta,
\* production throws, has sent no request, and leaves the platform's lists
\* as they were.
C18_InvalidTrackRejected ==
    [][\A r \in Runs :
         setter'[r] # setter[r] /\ setter[r].track \notin ValidTracks =>
            /\ setter'[r].pc = "threw"
            /\ setter'[r].calls = <<>>
            /\ track' = track]_vars

\* C18 witness: an execution given "Internal" has thrown
C18_Witness ==
    /\ setter[1].track = "Internal"
    /\ setter[1].pc = "threw"
    /\ setter[1].execs = 1
    /\ setter[1].calls = <<>>

----------------------------------------------------------------------------
(* setListingMetadata with validateMetadata and setAppDetails, as one call *)
(* with a given metadata argument.                                         *)

\* metadata.js:108  metadata.title.length > 50
TitleMax == 50
\* metadata.js:112  metadata.shortDescription.length > 80
ShortMax == 80
\* metadata.js:116  metadata.fullDescription.length > 4000
FullMax == 4000

\* a text, as far as the code looks at it: its length (String.length)
Text(n) == [length |-> n]

\* the texts tried for a field with limit max: empty, one below the limit,
\* at the limit, one above it
Texts(max) == {Text(n) : n \in {0, max - 1, max, max + 1}}

\* URL strings, written as the pieces the URL parser tells apart; the empty
\* one is the empty string
Urls ==
    {<<>>,
     <<"https", ":", "//", "example.com", "/privacy">>,
     <<"mailto", ":", "privacy@example.com">>,
     <<"example.com", "/privacy">>,
     <<"https", ":", "//">>}

Schemes == {"https", "http", "mailto"}
SpecialSchemes == {"https", "http"}

\* isValidUrl(url): new URL(url) does not throw -- the string starts with a
\* scheme and a colon, and a special scheme is followed by a host
IsValidUrl(url) ==
    /\ Len(url) >= 2
    /\ url[1] \in Schemes
    /\ url[2] = ":"
    /\ url[1] \in SpecialSchemes =>
          Len(url) >= 4 /\ url[3] = "//" /\ url[4] # ""

Categories == {"", "APPLICATION_PRODUCTIVITY"}

Metadatas ==
    [title : Texts(TitleMax), shortDescription : Texts(ShortMax),
     fullDescription : Texts(FullMax), category : Categories,
     privacyPolicyUrl : Urls]

TitleError == "Title exceeds 50 characters"
ShortError == "Short description exceeds 80 characters"
FullError == "Full description exceeds 4000 characters"
UrlError == "Invalid privacy policy URL"
ListingError == "Failed to set listing metadata"

\* validateMetadata with >= in place of >
ValidateMetadataInclusive(md) ==
    IF md.title.length >= TitleMax THEN TitleError
    ELSE IF md.shortDescription.length >= ShortMax THEN ShortError
    ELSE IF md.fullDescription.length >= FullMax THEN FullError
    ELSE IF md.privacyPolicyUrl # <<>> /\ ~IsValidUrl(md.privacyPolicyUrl)
         THEN UrlError
    ELSE "ok"

\* validateMetadata(metadata): the message of the first check that throws,
\* or "ok"; a field that is empty or missing is not checked
ValidateMetadata(md) ==
    IF md.title.length > 0 /\ md.title.length > TitleMax THEN TitleError
    ELSE IF md.shortDescription.length > 0
            /\ md.shortDescription.length > ShortMax THEN ShortError
    ELSE IF md.fullDescription.length > 0
            /\ md.fullDescription.length > FullMax THEN FullError
    ELSE IF md.privacyPolicyUrl # <<>> /\ ~IsValidUrl(md.privacyPolicyUrl)
         THEN UrlError
    ELSE "ok"

\* what a call threw / returned
Threw(msg) == [returned |-> FALSE, error |-> msg]
Returned(data) == [returned |-> TRUE, data |-> data]

\* setListingMetadata whose catch block also sees a failure of the
\* edits.get of setAppDetails
ListingOutcomeStrict(md, id, o1, o2) ==
    LET v == ValidateMetadata(md)
        update == Call("listings.update", id, Answer(o1))
        details == md.category # "" \/ md.privacyPolicyUrl # <<>>
    IN  IF v # "ok" THEN [calls |-> <<>>, result |-> Threw(v)]
        ELSE IF o1.kind # "ok"
        THEN [calls |-> <<update>>, result |-> Threw(ListingError)]
        ELSE IF ~details
        THEN [calls |-> <<update>>, result |-> Returned("listing")]
        ELSE [calls |-> <<update, Call("edits.get", id, Answer(o2))>>,
              result |-> IF o2.kind = "ok" THEN Returned("listing")
                         ELSE Threw(ListingError)]

\* setListingMetadata(packageName, editId, language, metadata) when
\* listings.update is answered o1 and the edits.get of setAppDetails o2:
\* the requests it sends and what it throws or returns.  validateMetadata
\* runs before the try block; a failed listings.update is rethrown;
\* setAppDetails is called when category or privacyPolicyUrl is given, and
\* catches the failure of its edits.get
ListingOutcome(md, id, o1, o2) ==
    LET v == ValidateMetadata(md)
        update == Call("listings.update", id, Answer(o1))
        details == md.category # "" \/ md.privacyPolicyUrl # <<>>
    IN  IF v # "ok" THEN [calls |-> <<>>, result |-> Threw(v)]
        ELSE IF o1.kind # "ok"
        THEN [calls |-> <<update>>, result |-> Threw(ListingError)]
        ELSE IF ~details
        THEN [calls |-> <<update>>, result |-> Returned("listing")]
        ELSE [calls |-> <<update, Call("edits.get", id, Answer(o2))>>,
              result |-> Returned("listing")]

InitListing ==
    /\ store = [p \in Packages |-> NoEdit]
    /\ now = 0
    /\ nextEditId = 1
    /\ ticks = 0
    /\ runs = 0
    /\ pc = "listing"
    /\ pkg = "com.a"
    /\ editId = nextEditId
    /\ versionCode = 0
    /\ phase = "Uploaded"
    /\ calls = <<>>
    /\ lookup = NoLookup
    /\ result = NoResult
    /\ lastStep = "init"
    /\ writer = Null
    /\ track = Null
    /\ setter = Null
    /\ metadata \in Metadatas
    /\ input = Null
    /\ local = Null

\* one call of setListingMetadata with the argument metadata
SetListingMetadataCall ==
    /\ pc = "listing"
    /\ \E o1 \in ApiOutcomes, o2 \in ApiOutcomes :
         LET r == ListingOutcome(metadata, editId, o1, o2)
         IN  /\ calls' = r.calls
             /\ result' = r.result
             /\ pc' = IF r.result.returned THEN "returned" ELSE "threw"
             /\ lastStep' = IF r.result.returned THEN "listing_ok"
                            ELSE IF r.calls = <<>> THEN "listing_invalid"
                            ELSE "listing_failed"
    /\ UNCHANGED <<store, now, nextEditId, ticks, runs, pkg, editId,
                   versionCode, phase, lookup, writer, track, setter,
                   metadata, input, local>>

NextListing ==
    \/ SetListingMetadataCall

SpecListing == InitListing /\ [][NextListing]_vars

\* the fields of md that break a rule of the listing
Violations(md) ==
    {e \in {TitleError, ShortError, FullError, UrlError} :
        \/ e = TitleError /\ md.title.length > TitleMax
        \/ e = ShortError /\ md.shortDescription.length > ShortMax
        \/ e = FullError /\ md.fullDescription.length > FullMax
        \/ e = UrlError /\ md.privacyPolicyUrl # <<>>
                        /\ ~IsValidUrl(md.privacyPolicyUrl)}

\* C19: when the title is longer than 50, the short description longer
\* than 80, the full description longer than 4000 or a given policy URL
\* does not parse, setListingMetadata throws the error of one of the
\* offending fields and sends no request; when no field offends (lengths
\* up to and including 50, 80, 4000) it sends listings.update.
C19_InvalidMetadataRejected ==
    pc # "listing" =>
        /\ Violations(metadata) # {} =>
              /\ ~result.returned
              /\ result.error \in Violations(metadata)
              /\ calls = <<>>
        /\ Violations(metadata) = {} =>
              /\ calls # <<>>
              /\ calls[1].op = "listings.update"
              /\ ~result.returned => result.error = ListingError

\* C19 witness: all three texts are at their limits and the policy URL has
\* no scheme; the call threw the URL error and sent nothing
C19_Witness ==
    /\ metadata.title.length = TitleMax
    /\ metadata.shortDescription.length = ShortMax
    /\ metadata.fullDescription.length = FullMax
    /\ metadata.privacyPolicyUrl = <<"example.com", "/privacy">>
    /\ result = Threw(UrlError)
    /\ calls = <<>>

\* C20: when listings.update succeeded setListingMetadata returns its data
\* whatever the answer to edits.get was, and edits.get is sent only as the
\* second request, after a listings.update that succeeded.
C20_SecondaryFailureTolerated ==
    pc # "listing" =>
        /\ (calls # <<>> /\ calls[1].res = "ok")
              => result = Returned("listing")
        /\ \A i \in 1..Len(calls) :
              calls[i].op = "edits.get" =>
                  /\ i = Len(calls) /\ i > 1
                  /\ calls[i - 1].op = "listings.update"
                  /\ calls[i - 1].res = "ok"

\* C20 witness: listings.update succeeded, edits.get failed, and the call
\* returned the listing
C20_Witness ==
    /\ Len(calls) > 1
    /\ calls[1].op = "listings.update" /\ calls[1].res = "ok"
    /\ calls[Len(calls)].op = "edits.get" /\ calls[Len(calls)].res = "error"
    /\ result = Returned("listing")

----------------------------------------------------------------------------
(* Single calls of the stage functions.  Each is checked on its own, with  *)
(* its arguments in input and its local variables in local.                *)

\* the state around a single call: a session is open, nothing was sent yet
CallInit ==
    /\ store = [p \in Packages |-> NoEdit]
    /\ now = 0
    /\ nextEditId = 1
    /\ ticks = 0
    /\ runs = 0
    /\ pkg = "com.a"
    /\ editId = nextEditId
    /\ versionCode = 0
    /\ phase = "Idle"
    /\ calls = <<>>
    /\ lookup = NoLookup
    /\ result = NoResult
    /\ lastStep = "init"
    /\ writer = Null
    /\ track = Null
    /\ setter = Null
    /\ metadata = Null

\* what a single call leaves alone
CallFrame ==
    UNCHANGED <<store, now, nextEditId, ticks, runs, pkg, editId,
                versionCode, phase, lookup, writer, track, setter, metadata,
                input>>

----------------------------------------------------------------------------
(* setContentRating with mapAnswersToContentRating and                     *)
(* setContentRatingAlternative.                                            *)

\* the questionnaire answers tried
Answers ==
    [isGamblingApp : BOOLEAN, isFinancialApp : BOOLEAN, isHealthApp : BOOLEAN,
     targetAgeGroup : {"", "TEEN", "MATURE", "ADULTS_ONLY"},
     containsViolence : BOOLEAN, containsSexualContent : BOOLEAN,
     containsDrugs : BOOLEAN]

\* mapAnswersToContentRating: const ageMap = {...}
AgeMap == {"EVERYONE", "EVERYONE_10_PLUS", "TEEN", "MATURE"}

\* mapAnswersToContentRating(answers): the request body
MapAnswersToContentRating(a) ==
    LET byKind == IF a.isGamblingApp THEN "MATURE" ELSE "EVERYONE"
        ratingId == IF a.isGamblingApp THEN "APPLICATION_GAMBLING"
                    ELSE IF a.isFinancialApp THEN "APPLICATION_FINANCE"
                    ELSE IF a.isHealthApp THEN "APPLICATION_MEDICAL"
                    ELSE "APPLICATION"
        rating == IF a.targetAgeGroup = "" THEN byKind
                  ELSE IF a.targetAgeGroup \in AgeMap THEN a.targetAgeGroup
                  ELSE "EVERYONE"
        descriptors ==
            (IF a.containsViolence THEN <<"VIOLENCE">> ELSE <<>>)
            \o (IF a.containsSexualContent THEN <<"SEXUAL_CONTENT">> ELSE <<>>)
            \o (IF a.containsDrugs THEN <<"DRUGS">> ELSE <<>>)
    IN  IF descriptors = <<>>
        THEN [rating |-> rating, ratingId |-> ratingId]
        ELSE [rating |-> rating, ratingId |-> ratingId,
              contentDescriptors |-> descriptors]

\* answers to contentRatings.update: the status code of a failure, and
\* whether its message contains the word "invalid"
RatingOutcomes ==
    {[kind |-> "ok"]} \cup
    {[kind |-> "http", code |-> c, invalid |-> b] :
        c \in {400, 403, 500}, b \in BOOLEAN}

RatingError == "Failed to set content rating"

\* setContentRating, line 35: error.code === 400 ||
\* error.message.includes('invalid')
RejectedShape(o) == o.code = 400 \/ o.invalid

\* setContentRating(packageName, editId, answers) when contentRatings.update
\* is answered o: a rejected shape is handed to setContentRatingAlternative,
\* which sends nothing and returns a note; any other failure is rethrown
RatingOutcome(o) ==
    IF o.kind = "ok" THEN [result |-> Returned("rating"), step |-> "rating_ok"]
    ELSE IF RejectedShape(o)
    THEN [result |-> Returned("alternative"), step |-> "rating_alternative"]
    ELSE [result |-> Threw(RatingError), step |-> "rating_failed"]

InitRating ==
    /\ CallInit
    /\ pc = "rating"
    /\ input \in [answers : Answers]
    /\ local = Null

\* one call of setContentRating with the answers of input
SetContentRatingCall ==
    /\ pc = "rating"
    /\ \E o \in RatingOutcomes :
         LET r == RatingOutcome(o)
         IN  /\ local' = [contentRating |->
                              MapAnswersToContentRating(input.answers)]
             /\ calls' = <<Call("contentRatings.update", editId, Answer(o))>>
             /\ result' = r.result
             /\ lastStep' = r.step
             /\ pc' = IF r.result.returned THEN "returned" ELSE "threw"
    /\ CallFrame

NextRating ==
    \/ SetContentRatingCall

SpecRating == InitRating /\ [][NextRating]_vars

\* C21: setContentRating returns whatever the answer to
\* contentRatings.update was, and sends that request once (the alternative
\* mapping is tried at most once).
C21_RatingNeverRaises ==
    pc # "rating" =>
        /\ result.returned
        /\ Len(calls) = 1

----------------------------------------------------------------------------
(* uploadScreenshotsFromDirectory: which images of the screenshots         *)
(* directory are handed to uploadScreenshots, and as which image type.     *)

\* a directory entry: its name without extension and its extension as
\* extname gives it
File(base, ext) == [base |-> base, ext |-> ext]

\* line 93 / 114: extname(file).toLowerCase()
ToLowerCase(ext) ==
    CASE ext = ".PNG" -> ".png"
      [] ext = ".JPG" -> ".jpg"
      [] OTHER -> ext

\* an image file that is taken for everything the directory holds
IsImageAny(f) == TRUE

\* line 92-94 / 113-115: ['.png', '.jpg', '.jpeg'].includes(extname(file).toLowerCase())
IsImage(f) == ToLowerCase(f.ext) \in {".png", ".jpg", ".jpeg"}

\* files.filter(...) on a listing
ImageFiles(files) == SelectSeq(files, IsImage)

\* line 78: const subdirs = [...]
Subdirs == <<"phone", "tablet", "tablet-10", "tv", "wear">>

\* line 79-85: const imageTypes = {...}
ImageTypes(subdir) ==
    CASE subdir = "phone"     -> "phoneScreenshots"
      [] subdir = "tablet"    -> "sevenInchScreenshots"
      [] subdir = "tablet-10" -> "tenInchScreenshots"
      [] subdir = "tv"        -> "tvScreenshots"
      [] subdir = "wear"      -> "wearScreenshots"

\* line 105: subdir.replace('-', '')
SummaryKey(subdir) == IF subdir = "tablet-10" THEN "tablet10" ELSE subdir

\* line 63-69: const summary = { phone: 0, ... }
EmptySummary == [phone |-> 0, tablet |-> 0, tablet10 |-> 0, tv |-> 0, wear |-> 0]

\* the listings tried for a directory: empty, one image, two images (one
\* with an upper-case extension), a text file only
Listings ==
    {<<>>,
     <<File("1", ".png")>>,
     <<File("1", ".jpeg"), File("2", ".JPG")>>,
     <<File("notes", ".txt")>>}

\* a subdirectory that does not exist
Absent == <<File("", "absent")>>

\* the screenshots directories tried: each subdirectory absent or with one
\* of the listings, and the files directly inside the root
Directories ==
    [root : Listings,
     sub : [{Subdirs[i] : i \in 1..Len(Subdirs)} -> Listings \cup {Absent}]]

\* a screenshots directory that does not exist
MissingDirectory ==
    [root |-> Absent,
     sub |-> [d \in {Subdirs[i] : i \in 1..Len(Subdirs)} |-> Absent]]

\* readdir(screenshotsDir): the files of the root and the names of the
\* subdirectories that exist
RootEntries(dir) ==
    dir.root \o
    SelectSeq([i \in 1..Len(Subdirs) |-> File(Subdirs[i], "")],
              LAMBDA e : dir.sub[e.base] # Absent)

\* join(directory, file) for each file
Paths(where, files) ==
    [i \in 1..Len(files) |-> [dir |-> where, file |-> files[i]]]

\* one call of uploadScreenshots: the image type and the paths it is given
Batch(imageType, paths) == [imageType |-> imageType, paths |-> paths]

\* line 111: summary.phone === 0 && summary.tablet === 0
FallsBack(summary) == summary.phone = 0 /\ summary.tablet = 0

\* lines 87-108: the loop over the subdirectories from the i-th on, with the
\* calls of uploadScreenshots made so far and the summary so far; failAt is
\* the number of the call of uploadScreenshots that throws (0: none)
RECURSIVE FromSubdirs(_, _, _, _, _)
FromSubdirs(dir, i, batches, summary, failAt) ==
    IF i > Len(Subdirs)
    THEN [batches |-> batches, summary |-> summary, threw |-> FALSE]
    ELSE LET subdir == Subdirs[i]
             files == dir.sub[subdir]
             images == IF files = Absent THEN <<>> ELSE ImageFiles(files)
         IN  IF images = <<>>
             THEN FromSubdirs(dir, i + 1, batches, summary, failAt)
             ELSE LET sent == Append(batches,
                                     Batch(ImageTypes(subdir),
                                           Paths(subdir, images)))
                  IN  IF Len(sent) = failAt
                      THEN [batches |-> sent, summary |-> summary,
                            threw |-> TRUE]
                      ELSE FromSubdirs(dir, i + 1, sent,
                               [summary EXCEPT ![SummaryKey(subdir)] =
                                                   Len(images)],
                               failAt)

\* uploadScreenshotsFromDirectory that still tries the images of the root
\* after the upload of a subdirectory has failed
FromDirectoryGoesOn(dir, failAt) ==
    LET s == FromSubdirs(dir, 1, <<>>, EmptySummary, failAt)
        images == ImageFiles(RootEntries(dir))
    IN  IF dir = MissingDirectory
        THEN [batches |-> <<>>, summary |-> EmptySummary, threw |-> FALSE]
        ELSE
        IF ~FallsBack(s.summary) \/ images = <<>> THEN s
        ELSE [batches |-> Append(s.batches,
                                 Batch("phoneScreenshots", Paths("", images))),
              summary |-> s.summary,
              threw |-> s.threw \/ Len(s.batches) + 1 = failAt]

\* uploadScreenshotsFromDirectory(packageName, editId, language,
\* screenshotsDir): nothing for a missing directory; else the
\* subdirectories in order, then the images of the root when the summary
\* counts no phone and no 7-inch tablet image
FromDirectory(dir, failAt) ==
    LET s == FromSubdirs(dir, 1, <<>>, EmptySummary, failAt)
        images == ImageFiles(RootEntries(dir))
    IN  IF dir = MissingDirectory
        THEN [batches |-> <<>>, summary |-> EmptySummary, threw |-> FALSE]
        ELSE
        IF s.threw \/ ~FallsBack(s.summary) \/ images = <<>> THEN s
        ELSE LET sent == Append(s.batches,
                                Batch("phoneScreenshots",
                                      Paths("", images)))
             IN  IF Len(sent) = failAt
                 THEN [batches |-> sent, summary |-> s.summary, threw |-> TRUE]
                 ELSE [batches |-> sent,
                       summary |-> [s.summary EXCEPT !.phone = Len(images)],
                       threw |-> FALSE]

ScreenshotsError == "Failed to upload screenshots"

InitScreenshots ==
    /\ CallInit
    /\ pc = "screenshots"
    /\ input \in [dir : Directories \cup {MissingDirectory}]
    /\ local = [batches |-> <<>>, failAt |-> 0]

\* one call of uploadScreenshotsFromDirectory on the directory of input
UploadScreenshotsFromDirectory ==
    /\ pc = "screenshots"
    /\ \E failAt \in 0..(Len(Subdirs) + 1) :
         LET r == FromDirectory(input.dir, failAt)
         IN  /\ failAt <= Len(r.batches)
             /\ local' = [batches |-> r.batches, failAt |-> failAt]
             /\ result' = IF r.threw THEN Threw(ScreenshotsError)
                          ELSE Returned(r.summary)
             /\ pc' = IF r.threw THEN "threw" ELSE "returned"
             /\ lastStep' = IF r.threw THEN "graphics_failed" ELSE "graphics_ok"
             /\ calls' = calls
    /\ CallFrame

NextScreenshots ==
    \/ UploadScreenshotsFromDirectory

SpecScreenshots == InitScreenshots /\ [][NextScreenshots]_vars

\* the subdirectories of dir that hold at least one image
Supplying(dir) ==
    {d \in DOMAIN dir.sub :
        dir.sub[d] # Absent /\ ImageFiles(dir.sub[d]) # <<>>}

\* the calls of uploadScreenshots that were given files of the root
RootBatches ==
    {i \in 1..Len(local.batches) :
        \E k \in 1..Len(local.batches[i].paths) :
            local.batches[i].paths[k].dir = ""}

\* C22: files directly inside the screenshots directory are uploaded only
\* as phone screenshots and only when no subdirectory phone, tablet,
\* tablet-10, tv or wear supplied an image.
C22_RootOnlyWithoutSubdirs ==
    pc # "screenshots" =>
        \A i \in RootBatches :
            /\ local.batches[i].imageType = "phoneScreenshots"
            /\ Supplying(input.dir) = {}

\* the images of listing files, as the paths of directory where
ImagesOf(where, files) == Paths(where, SelectSeq(files, IsImage))

\* C23: when every upload succeeds, a directory with images in its root
\* and no subdirectory has all of them uploaded in one batch of phone
\* screenshots; a directory whose only content is tv/ with two images has
\* exactly these two uploaded, as TV screenshots, and nothing else.
C23_FlatAndTvOnly ==
    pc = "returned" =>
        /\ (\A d \in DOMAIN input.dir.sub : input.dir.sub[d] = Absent)
              /\ ImageFiles(input.dir.root) # <<>>
              => local.batches =
                    <<Batch("phoneScreenshots", ImagesOf("", input.dir.root))>>
        /\ (\A d \in DOMAIN input.dir.sub \ {"tv"} : input.dir.sub[d] = Absent)
              /\ input.dir.root = <<>>
              /\ input.dir.sub["tv"] # Absent
              /\ Len(ImageFiles(input.dir.sub["tv"])) = 2
              => /\ local.batches =
                      <<Batch("tvScreenshots",
                              ImagesOf("tv", input.dir.sub["tv"]))>>
                 /\ result.data.tv = 2 /\ result.data.phone = 0

\* C23 witness: the directory holds only tv/ with two images and the call
\* returned
C23_Witness ==
    /\ pc = "returned"
    /\ input.dir.root = <<>>
    /\ \A d \in DOMAIN input.dir.sub \ {"tv"} : input.dir.sub[d] = Absent
    /\ input.dir.sub["tv"] # Absent
    /\ Len(input.dir.sub["tv"]) = 2
    /\ Len(local.batches) = 1

----------------------------------------------------------------------------
(* uploadScreenshots: the uploads of one call run concurrently and are     *)
(* joined by Promise.all.                                                  *)

\* the largest number of screenshot paths given to one call
MaxImages == 3

\* one upload callback: waiting for readFile, waiting for the answer to
\* edits.images.upload, finished, or rejected
UploadStates == {"reading", "uploading", "done", "failed"}

\* a join that waits for every upload before it reports a failure
PromiseAllSettled(uploads, res) ==
    IF res # NoResult THEN res
    ELSE IF \E i \in DOMAIN uploads : uploads[i] \in {"reading", "uploading"}
    THEN NoResult
    ELSE IF \E i \in DOMAIN uploads : uploads[i] = "failed"
    THEN Threw(ScreenshotsError)
    ELSE Returned([uploaded |-> Len(uploads)])

\* await Promise.all(uploadPromises) inside the try of uploadScreenshots:
\* once settled the outcome stays; the first rejection makes the function
\* throw, and the function returns when every promise is fulfilled
PromiseAll(uploads, res) ==
    IF res # NoResult THEN res
    ELSE IF \E i \in DOMAIN uploads : uploads[i] = "failed"
    THEN Threw(ScreenshotsError)
    ELSE IF \A i \in DOMAIN uploads : uploads[i] = "done"
    THEN Returned([uploaded |-> Len(uploads)])
    ELSE NoResult

InitUploads ==
    /\ CallInit
    /\ pc = "upload_call"
    /\ input \in [paths : 0..MaxImages, imageType : {"phoneScreenshots"}]
    /\ local = [uploads |-> <<>>]

\* where the caller of uploadScreenshots is after the join
AfterJoin(res) ==
    IF res = NoResult THEN "uploading"
    ELSE IF res.returned THEN "returned" ELSE "threw"

\* uploads u with the outcome of the join
Joined(u, step) ==
    /\ local' = [uploads |-> u]
    /\ result' = PromiseAll(u, result)
    /\ pc' = IF result # NoResult THEN pc ELSE AfterJoin(PromiseAll(u, result))
    /\ lastStep' = step
    /\ calls' = calls
    /\ CallFrame

\* screenshotPaths.map(async ...): every callback runs up to its readFile
UploadScreenshotsMap ==
    /\ pc = "upload_call"
    /\ Joined([i \in 1..input.paths |-> "reading"], "map")

\* readFile of image i resolves and edits.images.upload is sent
ReadFileResolves(i) ==
    /\ pc # "upload_call"
    /\ local.uploads[i] = "reading"
    /\ Joined([local.uploads EXCEPT ![i] = "uploading"], "read_ok")

\* readFile of image i rejects
ReadFileRejects(i) ==
    /\ pc # "upload_call"
    /\ local.uploads[i] = "reading"
    /\ Joined([local.uploads EXCEPT ![i] = "failed"], "read_failed")

\* edits.images.upload of image i succeeds
ImageUploadResolves(i) ==
    /\ pc # "upload_call"
    /\ local.uploads[i] = "uploading"
    /\ Joined([local.uploads EXCEPT ![i] = "done"], "upload_ok")

\* edits.images.upload of image i fails
ImageUploadRejects(i) ==
    /\ pc # "upload_call"
    /\ local.uploads[i] = "uploading"
    /\ Joined([local.uploads EXCEPT ![i] = "failed"], "upload_failed")

NextUploads ==
    \/ UploadScreenshotsMap
    \/ \E i \in 1..Len(local.uploads) : ReadFileResolves(i)
    \/ \E i \in 1..Len(local.uploads) : ReadFileRejects(i)
    \/ \E i \in 1..Len(local.uploads) : ImageUploadResolves(i)
    \/ \E i \in 1..Len(local.uploads) : ImageUploadRejects(i)

SpecUploads == InitUploads /\ [][NextUploads]_vars

\* C24: in every interleaving of the uploads of one call, uploadScreenshots
\* has returned only if every upload is finished, has thrown as soon as one
\* upload is rejected, and is still waiting otherwise.
C24_JoinedUploads ==
    pc # "upload_call" =>
        /\ pc = "returned" <=>
              \A i \in 1..Len(local.uploads) : local.uploads[i] = "done"
        /\ pc = "threw" <=>
              \E i \in 1..Len(local.uploads) : local.uploads[i] = "failed"
        /\ pc = "returned" => result = Returned([uploaded |-> input.paths])
        /\ pc = "threw" => result = Threw(ScreenshotsError)

\* C24 witness: the call has thrown, and after that an upload that was in
\* flight finished while another one is still waiting for its answer
C24_Witness ==
    /\ pc = "threw"
    /\ lastStep = "upload_ok"
    /\ \E i \in 1..Len(local.uploads) : local.uploads[i] = "uploading"

----------------------------------------------------------------------------
(* setPricing: the price sent with edits.pricing.update.                   *)

\* a price string: its decimal digits and how many of them follow the
\* point; Price(<<1, 0, 0, 5>>, 3) is "1.005"
Price(digits, scale) == [digits |-> digits, scale |-> scale]

\* a missing or unparsable price: parseFloat gives NaN
NoPrice == Price(<<>>, 0)

\* the price strings tried
Prices ==
    {Price(<<1, 9, 9>>, 2), Price(<<1, 0, 0, 5>>, 3), Price(<<2>>, 0),
     Price(<<1, 0, 5>>, 1), Price(<<0, 0, 0, 0, 0, 0, 0, 1, 6>>, 7),
     Price(<<0, 0, 0, 0, 0, 0, 0, 0, 5>>, 7),
     Price(<<0, 0, 0, 0, 0, 0, 0, 1, 4>>, 7), NoPrice}

\* the digits read as one decimal number
RECURSIVE DigitsValue(_)
DigitsValue(digits) ==
    IF digits = <<>> THEN 0
    ELSE 10 * DigitsValue(SubSeq(digits, 1, Len(digits) - 1))
             + digits[Len(digits)]

RECURSIVE Pow10(_)
Pow10(n) == IF n = 0 THEN 1 ELSE 10 * Pow10(n - 1)

\* line 302: the factor from currency units to micro units
Million == 1000000

\* parseFloat(pricing.price) * 1000000, in tenths of a micro unit (one
\* decimal digit more than the result keeps)
Product(price) ==
    DigitsValue(price.digits) * ((Million * 10) \div Pow10(price.scale))

\* the product is computed in binary floating point: it is the decimal
\* value or a value just below or just above it
FloatErrors == {-1, 0, 1}

\* cutting the fraction off instead of rounding
MathTrunc(t, err) ==
    IF t % 10 = 0 /\ err < 0 /\ t > 0 THEN (t \div 10) - 1 ELSE t \div 10

\* Math.round of the product t (in tenths) with floating point error err:
\* the nearest integer, a half going up
MathRound(t, err) ==
    LET q == t \div 10
        r == t % 10
    IN  IF r < 5 THEN q
        ELSE IF r > 5 THEN q + 1
        ELSE IF err < 0 THEN q ELSE q + 1

\* line 302: Math.round(parseFloat(pricing.price) * 1000000).toString()
PriceMicros(price, err) ==
    IF price = NoPrice THEN "NaN"
    ELSE ToString(MathRound(Product(price), err))

\* the pricing configurations tried; currency "" is a missing currency
Pricings == [free : BOOLEAN, price : Prices, currency : {"", "USD", "EUR"}]

\* pricing.currency || 'USD'
CurrencyOf(pricing) == IF pricing.currency = "" THEN "USD" ELSE pricing.currency

\* lines 290-295 / 307-312: the request body of edits.pricing.update
PricingBody(pricing, err) ==
    [priceMicros |-> IF pricing.free THEN "0"
                     ELSE PriceMicros(pricing.price, err),
     currency |-> CurrencyOf(pricing)]

PricingError == "Failed to set pricing"

InitPricing ==
    /\ CallInit
    /\ pc = "pricing"
    /\ input \in [pricing : Pricings]
    /\ local = [sent |-> FALSE]

\* one call of setPricing
SetPricingCall ==
    /\ pc = "pricing"
    /\ \E o \in ApiOutcomes, err \in FloatErrors :
         /\ local' = [sent |-> TRUE, requestBody |-> PricingBody(input.pricing, err)]
         /\ calls' = <<Call("pricing.update", editId, Answer(o))>>
         /\ result' = IF o.kind = "ok" THEN Returned("pricing")
                      ELSE Threw(PricingError)
         /\ pc' = IF o.kind = "ok" THEN "returned" ELSE "threw"
         /\ lastStep' = IF o.kind = "ok" THEN "pricing_ok" ELSE "pricing_failed"
    /\ CallFrame

NextPricing ==
    \/ SetPricingCall

SpecPricing == InitPricing /\ [][NextPricing]_vars

\* the integers m that are nearest to t tenths
Nearest(t) == {m \in {(t \div 10) - 1, t \div 10, (t \div 10) + 1} :
                  10 * m - t <= 5 /\ t - 10 * m <= 5}

\* C25: the request of setPricing carries priceMicros "0" for a free app;
\* for a paid app with a parsable price it carries the price times
\* 1,000,000 rounded to a nearest integer, "1990000" for "1.99" and
\* "1005000" for "1.005"; the currency is the given one, "USD" if none.
C25_PriceMicros ==
    "requestBody" \in DOMAIN local =>
        LET body == local.requestBody
            pricing == input.pricing
        IN  /\ pricing.free => body.priceMicros = "0"
            /\ ~pricing.free /\ pricing.price # NoPrice =>
                  \E m \in Nearest(Product(pricing.price)) :
                      body.priceMicros = ToString(m)
            /\ ~pricing.free /\ pricing.price = Price(<<1, 9, 9>>, 2) =>
                  body.priceMicros = "1990000"
            /\ ~pricing.free /\ pricing.price = Price(<<1, 0, 0, 5>>, 3) =>
                  body.priceMicros = "1005000"
            /\ body.currency = IF pricing.currency = "" THEN "USD"
                               ELSE pricing.currency

\* C25 witness: a paid app priced "1.005" without currency was sent as
\* 1005000 micros in USD
C25_Witness ==
    /\ pc = "returned"
    /\ ~input.pricing.free
    /\ input.pricing.price = Price(<<1, 0, 0, 5>>, 3)
    /\ input.pricing.currency = ""
    /\ local.requestBody = [priceMicros |-> "1005000", currency |-> "USD"]

----------------------------------------------------------------------------
(* loadPlayStoreConfig and validateConfig.                                 *)

\* line 194: const required = [...]
Required == <<"packageName", "build", "metadata">>

\* line 207: const requiredMetadata = [...]
RequiredMetadata ==
    <<"title", "shortDescription", "fullDescription", "category",
      "privacyPolicyUrl">>

\* the elements of a sequence
Range(seq) == {seq[i] : i \in 1..Len(seq)}

\* the config objects tried: has is the set of top-level fields with a
\* truthy value, build the truthy fields of config.build, metadata the
\* truthy fields of config.metadata
Configs ==
    {c \in [has : SUBSET Range(Required),
            build : SUBSET {"aab", "apk"},
            metadata : SUBSET Range(RequiredMetadata)] :
        /\ "build" \notin c.has => c.build = {}
        /\ "metadata" \notin c.has => c.metadata = {}}

\* the config files tried: no file, a file that does not parse, or a file
\* with one of the config objects
ConfigFiles ==
    {[file |-> "missing"], [file |-> "unparsable"]} \cup
    {[file |-> "json", config |-> c] : c \in Configs}

\* an error of the loader: its message up to the colon and the fields it
\* lists
ConfigError(msg, fields) ==
    [returned |-> FALSE, error |-> msg, fields |-> fields]

\* validateConfig(config): the first failing check throws
ValidateConfig(config) ==
    LET missing == SelectSeq(Required, LAMBDA f : f \notin config.has)
        missingMetadata ==
            SelectSeq(RequiredMetadata, LAMBDA f : f \notin config.metadata)
    IN  IF missing # <<>>
        THEN ConfigError("Missing required config fields", missing)
        ELSE IF config.build = {}
        THEN ConfigError("Config must specify either build.aab or build.apk",
                         <<>>)
        ELSE IF missingMetadata # <<>>
        THEN ConfigError("Missing required metadata fields", missingMetadata)
        ELSE Returned("config")

\* loadPlayStoreConfig(configPath)
LoadPlayStoreConfig(f) ==
    IF f.file = "missing" THEN ConfigError("Config file not found", <<>>)
    ELSE IF f.file = "unparsable"
    THEN ConfigError("Failed to parse config file", <<>>)
    ELSE ValidateConfig(f.config)

InitConfig ==
    /\ CallInit
    /\ pc = "config"
    /\ input \in ConfigFiles
    /\ local = [loaded |-> FALSE]

\* one call of loadPlayStoreConfig; it sends no request
LoadPlayStoreConfigCall ==
    /\ pc = "config"
    /\ result' = LoadPlayStoreConfig(input)
    /\ pc' = IF result'.returned THEN "returned" ELSE "threw"
    /\ local' = [loaded |-> result'.returned]
    /\ lastStep' = IF result'.returned THEN "config_ok" ELSE "config_failed"
    /\ calls' = calls
    /\ CallFrame

NextConfig ==
    \/ LoadPlayStoreConfigCall

SpecConfig == InitConfig /\ [][NextConfig]_vars

\* the required values a config lacks: the package name, an artifact path,
\* and the five listing fields
MissingFields(config) ==
    (IF "packageName" \in config.has THEN {} ELSE {"packageName"})
    \cup (IF config.build = {} THEN {"artifact"} ELSE {})
    \cup (Range(RequiredMetadata) \ config.metadata)

\* the required values an error of the loader names: the listed fields,
\* the artifact path when build or its paths are named, every listing field
\* when metadata as a whole is named
NamedFields(err) ==
    (Range(err.fields) \ {"build", "metadata"})
    \cup (IF "build" \in Range(err.fields)
             \/ err.error = "Config must specify either build.aab or build.apk"
          THEN {"artifact"} ELSE {})
    \cup (IF "metadata" \in Range(err.fields)
          THEN Range(RequiredMetadata) ELSE {})

\* C26: a config file that lacks any of the package name, the artifact
\* path, title, shortDescription, fullDescription, category and
\* privacyPolicyUrl is rejected without any request having been sent, by
\* one error that names every value it lacks.
C26_OneErrorNamesAllMissing ==
    pc # "config" /\ input.file = "json"
        /\ MissingFields(input.config) # {} =>
            /\ pc = "threw"
            /\ calls = <<>>
            /\ MissingFields(input.config) \subseteq NamedFields(result)

----------------------------------------------------------------------------
(* setDistribution.                                                        *)

\* the country codes tried
CountryCodes == {"US", "DE", "FR", "JP"}

\* the countries arguments tried: 'all', one code as a string, or an array
\* of codes
CountriesArgs ==
    {[all |-> TRUE]} \cup
    {[all |-> FALSE, array |-> FALSE, codes |-> {c}] : c \in {"US"}} \cup
    {[all |-> FALSE, array |-> TRUE, codes |-> cs] : cs \in SUBSET CountryCodes}

DistributionNote == "Set distribution manually in Play Console"

\* setDistribution whose catch block rethrows
DistributionOutcomeRethrows(countries, o) ==
    IF o.kind = "ok"
    THEN [result |-> Returned([success |-> TRUE]),
          log |-> <<"Distribution set to",
                    IF countries.all THEN {"All countries"}
                    ELSE countries.codes>>]
    ELSE [result |-> Threw("Failed to set distribution"),
          log |-> <<"Could not set distribution via API", {ToString(o.code)}>>]

\* lines 397-418: what setDistribution returns and logs when edits.get was
\* answered o
DistributionOutcome(countries, o) ==
    IF o.kind = "ok"
    THEN [result |-> Returned([success |-> TRUE]),
          log |-> <<"Distribution set to",
                    IF countries.all THEN {"All countries"}
                    ELSE countries.codes>>]
    ELSE [result |-> Returned([success |-> FALSE, note |-> DistributionNote]),
          log |-> <<"Could not set distribution via API", {ToString(o.code)}>>]

InitDistribution ==
    /\ CallInit
    /\ pc = "distribution"
    /\ input \in [countries : CountriesArgs]
    /\ local = [log |-> <<>>]

\* one call of setDistribution
SetDistributionCall ==
    /\ pc = "distribution"
    /\ \E o \in ApiOutcomes :
         LET r == DistributionOutcome(input.countries, o)
         IN  /\ calls' = <<Call("edits.get", editId, Answer(o))>>
             /\ result' = r.result
             /\ local' = [log |-> r.log]
             /\ pc' = IF r.result.returned THEN "returned" ELSE "threw"
             /\ lastStep' = IF o.kind = "ok" THEN "distribution_ok"
                            ELSE "distribution_warning"
    /\ CallFrame

NextDistribution ==
    \/ SetDistributionCall

SpecDistribution == InitDistribution /\ [][NextDistribution]_vars

\* the requests that only read
ReadOnlyOps == {"edits.get", "tracks.get"}

\* C27: setDistribution always returns; when its request failed it returns
\* a result that is not a success and carries a note for the operator; the
\* only request it sends reads the session and changes nothing.
C27_DistributionInformational ==
    pc # "distribution" =>
        /\ pc = "returned"
        /\ result.returned
        /\ \A i \in 1..Len(calls) : calls[i].op \in ReadOnlyOps
        /\ (\E i \in 1..Len(calls) : calls[i].res = "error") =>
              /\ ~result.data.success
              /\ result.data.note = DistributionNote

\* C27 witness: the request failed and the call returned the note
C27_Witness ==
    /\ pc = "returned"
    /\ calls = <<Call("edits.get", editId, "error")>>
    /\ result = Returned([success |-> FALSE, note |-> DistributionNote])
    /\ input.countries.all = FALSE

----------------------------------------------------------------------------
(* A publish run in which every platform call succeeds and the             *)
(* configuration passes every local check.                                 *)

\* nothing has failed in the run so far: no request of the log was answered
\* with an error, no step ended with a warning, and the run was not aborted
AllSucceeded ==
    /\ phase # "Aborted"
    /\ \A i \in 1..Len(calls) : calls[i].res \in {"ok", Swallowed}
    /\ lastStep \notin {"rating_warning", "distribution_warning"}

\* a run is started while the platform can still hand out the ids the run
\* may ask for (two in createPlayStoreApp, one in uploadBuildWithEdit)
StartRunWithIds ==
    /\ nextEditId + 2 <= MaxEdits
    /\ StartRun

NextAllSucceed ==
    \/ Tick /\ UNCHANGED others
    \/ StartRunWithIds /\ UNCHANGED others
    \/ CreatePlayStoreApp /\ AllSucceeded' /\ UNCHANGED others
    \/ UbeGetExisting /\ UNCHANGED others
    \/ UbeCreateEdit /\ AllSucceeded' /\ UNCHANGED others
    \/ UbeUploadBuild /\ AllSucceeded' /\ UNCHANGED others
    \/ SetListingMetadata /\ AllSucceeded' /\ UNCHANGED others
    \/ SetContentRating /\ AllSucceeded' /\ UNCHANGED others
    \/ UploadGraphics /\ AllSucceeded' /\ UNCHANGED others
    \/ SetPricing /\ AllSucceeded' /\ UNCHANGED others
    \/ SetReleaseTrack /\ AllSucceeded' /\ UNCHANGED others
    \/ SetDistribution /\ AllSucceeded' /\ UNCHANGED others
    \/ ValidateEdit /\ AllSucceeded' /\ UNCHANGED others
    \/ CommitEdit /\ AllSucceeded' /\ UNCHANGED others

\* the publisher awaits one call after the other and every call is
\* answered, so a run that can take a step takes one
SpecAllSucceed ==
    Init /\ [][NextAllSucceed]_vars /\ WF_vars(NextAllSucceed)

\* the run has ended in Committed, has the version code of its upload as
\* the result, and the store holds no record for its package
CommittedAndCleared ==
    /\ pc = "done"
    /\ phase = "Committed"
    /\ result.returned
    /\ result.versionCode = versionCode
    /\ store[pkg] = NoEdit

\* C28: when every platform call succeeds and the configuration is valid,
\* a run that has started eventually reaches Committed, with the version
\* code assigned at upload as its result and no session record left for
\* its package.
C28_RunEventuallyCommitted ==
    (pc = "checkApp") ~> CommittedAndCleared

\* C28 witness: a run went through every step, its last request is the
\* commit and its package has no record
C28_Witness ==
    /\ CommittedAndCleared
    /\ lastStep = "commit_ok"
    /\ calls[Len(calls)].op = "commit"
    /\ \E i \in 1..Len(calls) : calls[i].op = "upload"

----------------------------------------------------------------------------
(* pollProjectActivation: the loop that waits for a new project.           *)

\* line 77: maxAttempts = 30
MaxAttempts == 30

\* lines 97, 104, 124: sleep(2000)
SleepMs == 2000

\* line 110: attempt > 5
DirectAfter == 5

\* the answers to crm.operations.get: the operation is done, it is still
\* running, or the request failed with the given code
OperationOutcomes ==
    {[kind |-> "done"], [kind |-> "running"]} \cup
    {[kind |-> "http", code |-> c] : c \in {404, 500}}

\* the answers to crm.projects.get: a project in some lifecycle state, or a
\* failed request
ProjectOutcomes ==
    {[kind |-> "ok", lifecycleState |-> l] :
        l \in {"ACTIVE", "LIFECYCLE_STATE_UNSPECIFIED", "DELETE_REQUESTED"}}
    \cup {[kind |-> "http", code |-> c] : c \in {404, 500}}

\* no project to return
NoProject == [kind |-> "none"]

\* a check that takes every project that was read for an active one
IsActiveAny(p) == p.kind = "ok"

\* lines 91, 115: project.data.lifecycleState === 'ACTIVE'
IsActive(p) == p.kind = "ok" /\ p.lifecycleState = "ACTIVE"

\* lines 108-121, the catch block for an error with code c in the given
\* attempt: after the fifth attempt a 404 makes the loop read the project
\* directly (answer p2); gives the project to return, or NoProject
Caught(c, attempt, p2) ==
    IF c = 404 /\ attempt > DirectAfter /\ IsActive(p2) THEN p2 ELSE NoProject

\* lines 79-127, one pass of the loop: operations.get answered op, the
\* projects.get of the try block p1, the one of the catch block p2; gives
\* the project to return, or NoProject when the pass ends without one
Pass(attempt, op, p1, p2) ==
    CASE op.kind = "running" -> NoProject
      [] op.kind = "http" -> Caught(op.code, attempt, p2)
      [] op.kind = "done" ->
            IF p1.kind = "http" THEN Caught(p1.code, attempt, p2)
            ELSE IF IsActive(p1) THEN p1
            ELSE NoProject

TimeoutError == "Project creation timed out. Project may still be activating."

InitPolling ==
    /\ CallInit
    /\ pc = "polling"
    /\ input = [maxAttempts |-> MaxAttempts]
    /\ local = [attempt |-> 1, checks |-> 0, sleeps |-> 0, waited |-> 0]

\* one pass of the loop of pollProjectActivation with what follows it: the
\* return, the sleep before the next pass, or the throw after the last one
PollProjectActivation ==
    /\ pc = "polling"
    /\ local.attempt <= input.maxAttempts
    /\ \E op \in OperationOutcomes, p1 \in ProjectOutcomes,
          p2 \in ProjectOutcomes :
         LET found == Pass(local.attempt, op, p1, p2)
         IN  IF found # NoProject
             THEN /\ local' = [local EXCEPT !.checks = @ + 1]
                  /\ result' = Returned(found)
                  /\ pc' = "returned"
                  /\ lastStep' = "active"
             ELSE IF local.attempt < input.maxAttempts
             THEN /\ local' = [local EXCEPT !.attempt = @ + 1,
                                             !.checks = @ + 1,
                                             !.sleeps = @ + 1,
                                             !.waited = @ + SleepMs]
                  /\ result' = result
                  /\ pc' = pc
                  /\ lastStep' = op.kind
             ELSE /\ local' = [local EXCEPT !.checks = @ + 1]
                  /\ result' = Threw(TimeoutError)
                  /\ pc' = "threw"
                  /\ lastStep' = "timeout"
    /\ calls' = calls
    /\ CallFrame

NextPolling ==
    \/ PollProjectActivation

SpecPolling == InitPolling /\ [][NextPolling]_vars

\* C29: pollProjectActivation checks the operation at most 30 times, with
\* one wait of 2000 ms between two checks; after the 30th check it has
\* ended; it returns only a project read in state ACTIVE and otherwise
\* throws the timeout error.
C29_BoundedPolling ==
    /\ local.checks <= 30
    /\ local.waited = 2000 * local.sleeps
    /\ local.sleeps = IF pc = "polling" THEN local.checks
                      ELSE local.checks - 1
    /\ pc = "polling" => local.checks < 30
    /\ pc = "returned" =>
          result.returned /\ result.data.lifecycleState = "ACTIVE"
    /\ pc = "threw" => result = Threw(TimeoutError) /\ local.checks = 30

\* C29 witness: the 30th check did not find an active project and the
\* timeout was thrown after 29 waits
C29_Witness ==
    /\ pc = "threw"
    /\ local.checks = 30
    /\ local.waited = 29 * 2000

----------------------------------------------------------------------------
(* uploadBuildWithEdit when its createEdit fails.                          *)

\* the first request uploadBuildWithEdit sent after its lookup is an
\* edits.insert that failed with something other than "not found"
OpeningFailed ==
    /\ lookup.seen
    /\ Len(calls) > lookup.n
    /\ calls[lookup.n + 1].op = "insert"
    /\ calls[lookup.n + 1].res = "error"

----------------------------------------------------------------------------
(* commitEdit when clearing the record fails.                              *)

\* C31: when commitEdit has thrown, the edits.commit request it sent was
\* answered with an error (the platform did not accept the commit).
C31_CommitErrorMeansNotPublished ==
    pc = "aborted" /\ calls # <<>> /\ calls[Len(calls)].op = "commit" =>
        calls[Len(calls)].res = "error"

----------------------------------------------------------------------------
(* uploadScreenshotsFromDirectory: the order of the device classes and     *)
(* the first failure.                                                      *)

\* the device classes in the order of the claim: phone, 7-inch tablet,
\* 10-inch tablet, TV, wearable
ClassOrder ==
    <<[dir |-> "phone", imageType |-> "phoneScreenshots"],
      [dir |-> "tablet", imageType |-> "sevenInchScreenshots"],
      [dir |-> "tablet-10", imageType |-> "tenInchScreenshots"],
      [dir |-> "tv", imageType |-> "tvScreenshots"],
      [dir |-> "wear", imageType |-> "wearScreenshots"]>>

\* the classes whose subdirectory holds images, in that order
SupplyingClasses ==
    SelectSeq(ClassOrder, LAMBDA c : c.dir \in Supplying(input.dir))

\* the calls of uploadScreenshots made for a subdirectory, in the order
\* they were made
ClassBatches ==
    SelectSeq(local.batches, LAMBDA b : b.paths[1].dir # "")

\* C32: the subdirectories that hold images are uploaded one class after
\* the other in the order phone, tablet, tablet-10, tv, wear, each as its
\* own image type and before any image of the root; when one upload fails
\* the function throws and nothing is attempted after the failed upload,
\* neither a later class nor the images of the root.
C32_ClassesInOrderFirstFailureStops ==
    pc # "screenshots" =>
        /\ Len(ClassBatches) <= Len(SupplyingClasses)
        /\ \A i \in 1..Len(ClassBatches) :
              /\ ClassBatches[i].imageType = SupplyingClasses[i].imageType
              /\ ClassBatches[i].paths[1].dir = SupplyingClasses[i].dir
              /\ local.batches[i] = ClassBatches[i]
        /\ pc = "returned" =>
              /\ local.failAt = 0
              /\ Len(ClassBatches) = Len(SupplyingClasses)
        /\ pc = "threw" =>
              /\ local.failAt = Len(local.batches)
              /\ local.failAt > 0

\* C32 witness: the upload of tv/ failed while wear/ and the root also
\* hold images; the function threw with the tv upload as its last one
C32_Witness ==
    /\ pc = "threw"
    /\ Supplying(input.dir) = {"tv", "wear"}
    /\ ImageFiles(input.dir.root) # <<>>
    /\ Len(local.batches) = 1
    /\ local.batches[1].imageType = "tvScreenshots"

----------------------------------------------------------------------------
(* The whole of state.json under saveEditState and clearEditState, one     *)
(* call after the other.  The file holds currentProject, firebaseProject,  *)
(* serviceAccount and playStore, with playStore.apps and playStore.edits;  *)
(* the entries of playStore.edits are kept in store.                       *)

\* calls of saveEditState and clearEditState in one behaviour
MaxFileOps == 3

\* the contents of state.json apart from the entries of playStore.edits:
\* whether the file exists, the three top-level entries ("" when absent),
\* whether playStore and playStore.edits exist, and playStore.apps
StateFiles ==
    {f \in [exists : BOOLEAN,
            currentProject : {"", "autoapp-1"},
            firebaseProject : {"", "firebase-1"},
            serviceAccount : {"", "publisher@autoapp-1"},
            playStore : BOOLEAN,
            apps : {"", "apps"},
            hasEdits : BOOLEAN] :
        /\ ~f.exists => /\ f.currentProject = "" /\ f.firebaseProject = ""
                        /\ f.serviceAccount = "" /\ ~f.playStore
        /\ ~f.playStore => f.apps = "" /\ ~f.hasEdits}

\* saveEditState that writes a new object holding only the record of p
SaveEditStateFileAnew(f, st, p, id, t) ==
    [file |-> [exists |-> TRUE, currentProject |-> "", firebaseProject |-> "",
               serviceAccount |-> "", playStore |-> TRUE, apps |-> "",
               hasEdits |-> TRUE],
     store |-> SaveEditState([q \in Packages |-> NoEdit], p, id, t)]

\* saveEditState(packageName, editId) on the whole file: the object read
\* (or {}) gets playStore and playStore.edits if it lacks them, the entry
\* of p is set, and the object is written back
SaveEditStateFile(f, st, p, id, t) ==
    [file |-> [f EXCEPT !.exists = TRUE, !.playStore = TRUE,
                        !.hasEdits = TRUE],
     store |-> SaveEditState(st, p, id, t)]

\* clearEditState(packageName) on the whole file: only when the object read
\* has an entry for p is the entry deleted and the object written back
ClearEditStateFile(f, st, p) ==
    IF f.hasEdits /\ st[p] # NoEdit
    THEN [file |-> f, store |-> ClearEditState(st, p)]
    ELSE [file |-> f, store |-> st]

InitWholeFile ==
    /\ CallInit
    /\ pc = "state_file"
    /\ input = [sequential |-> TRUE]
    /\ local \in StateFiles

\* what a call on state.json leaves alone
WholeFileFrame ==
    UNCHANGED <<now, ticks, pc, editId, versionCode, phase, calls, lookup,
                result, writer, track, setter, metadata, input>>

\* one call of saveEditState for package p with a new session id
SaveEditStateCall ==
    /\ runs < MaxFileOps
    /\ nextEditId <= MaxEdits
    /\ \E p \in Packages :
         LET w == SaveEditStateFile(local, store, p, nextEditId, now)
         IN  /\ pkg' = p
             /\ local' = w.file
             /\ store' = w.store
    /\ nextEditId' = nextEditId + 1
    /\ runs' = runs + 1
    /\ lastStep' = "save"
    /\ WholeFileFrame

\* one call of clearEditState for package p
ClearEditStateCall ==
    /\ runs < MaxFileOps
    /\ \E p \in Packages :
         LET w == ClearEditStateFile(local, store, p)
         IN  /\ pkg' = p
             /\ local' = w.file
             /\ store' = w.store
    /\ nextEditId' = nextEditId
    /\ runs' = runs + 1
    /\ lastStep' = "clear"
    /\ WholeFileFrame

NextWholeFile ==
    \/ SaveEditStateCall
    \/ ClearEditStateCall

SpecWholeFile == InitWholeFile /\ [][NextWholeFile]_vars

\* C33: a call of saveEditState or clearEditState for package p leaves
\* currentProject, firebaseProject, serviceAccount and playStore.apps of
\* state.json as they were, and the session record of every other package.
C33_OnlyOwnRecordChanges ==
    [][/\ local'.currentProject = local.currentProject
       /\ local'.firebaseProject = local.firebaseProject
       /\ local'.serviceAccount = local.serviceAccount
       /\ local'.apps = local.apps
       /\ \A q \in Packages \ {pkg'} : store'[q] = store[q]]_vars

\* C33 witness: the file holds all three top-level entries and the record
\* of the other package, and the record of this package has just been
\* cleared
C33_Witness ==
    /\ lastStep = "clear"
    /\ store[pkg] = NoEdit
    /\ \E q \in Packages \ {pkg} : store[q] # NoEdit
    /\ runs = 3
    /\ local.currentProject # ""
    /\ local.firebaseProject # ""
    /\ local.serviceAccount # ""

----------------------------------------------------------------------------
(* The create-project command: checkGcloudStatus, createProject (with      *)
(* pollProjectActivation and saveProjectState), enableAllRequiredApis,     *)
(* setupServiceAccount.                                                    *)

\* the currentProject entries state.json may hold before the command
\* ("" when it has none)
CurrentProjects == {"", "autoapp-0"}

\* the id of the project the command creates
NewProject == "autoapp-1"

InitCreateProject ==
    /\ CallInit
    /\ pc = "auth"
    /\ input \in [maxAttempts : {MaxAttempts}, currentProject : CurrentProjects,
                  skipServiceAccount : BOOLEAN]
    /\ local = [attempt |-> 1, checks |-> 0, sleeps |-> 0, waited |-> 0,
                currentProject |-> input.currentProject,
                apis |-> FALSE, serviceAccount |-> FALSE]

\* cli.js 136-140: without authentication the command exits at once
CheckGcloudStatus ==
    /\ pc = "auth"
    /\ \E authenticated \in BOOLEAN :
         /\ pc' = IF authenticated THEN "create" ELSE "exit1"
         /\ lastStep' = IF authenticated THEN "authenticated"
                        ELSE "not_authenticated"
    /\ UNCHANGED <<local, result, calls>>
    /\ CallFrame

\* createProject that saves the project as soon as projects.create answered
CreateProjectSavesEarly ==
    /\ pc = "create"
    /\ \E o \in ApiOutcomes :
         /\ pc' = IF o.kind = "ok" THEN "polling" ELSE "failed"
         /\ result' = IF o.kind = "ok" THEN result
                      ELSE Threw("Failed to create project")
         /\ lastStep' = IF o.kind = "ok" THEN "create_sent" ELSE "create_failed"
         /\ local' = IF o.kind = "ok"
                     THEN [local EXCEPT !.currentProject = NewProject]
                     ELSE local
    /\ calls' = calls
    /\ CallFrame

\* createProject, lines 37-51 and 62-70: crm.projects.create; a failure is
\* rethrown (409 and 403 with their own messages), otherwise the function
\* goes on to pollProjectActivation
CreateProject ==
    /\ pc = "create"
    /\ \E o \in ApiOutcomes :
         /\ pc' = IF o.kind = "ok" THEN "polling" ELSE "failed"
         /\ result' = IF o.kind = "ok" THEN result
                      ELSE Threw("Failed to create project")
         /\ lastStep' = IF o.kind = "ok" THEN "create_sent" ELSE "create_failed"
    /\ UNCHANGED <<local, calls>>
    /\ CallFrame

\* createProject, lines 53-61, after pollProjectActivation returned:
\* saveProjectState sets currentProject and writes state.json; a failed
\* write is rethrown and leaves the file as it was
SaveProjectState ==
    /\ pc = "returned"
    /\ \E written \in BOOLEAN :
         /\ local' = IF written
                     THEN [local EXCEPT !.currentProject = NewProject]
                     ELSE local
         /\ pc' = IF written THEN "apis" ELSE "failed"
         /\ lastStep' = IF written THEN "project_saved" ELSE "save_failed"
    /\ UNCHANGED <<result, calls>>
    /\ CallFrame

\* cli.js 194-207: an error of createProject (a failed creation, the
\* timeout of the polling, a failed write) ends the command with
\* process.exit(1)
ProjectSetupFailed ==
    /\ pc \in {"failed", "threw"}
    /\ pc' = "exit1"
    /\ UNCHANGED <<local, result, calls, lastStep>>
    /\ CallFrame

\* cli.js 154: enableAllRequiredApis(projectId)
EnableApisStep ==
    /\ pc = "apis"
    /\ local' = [local EXCEPT !.apis = TRUE]
    /\ pc' = "serviceAccount"
    /\ lastStep' = "apis"
    /\ UNCHANGED <<result, calls>>
    /\ CallFrame

\* cli.js 157-182: setupServiceAccount unless --skip-service-account; its
\* failure is logged and the command goes on
ServiceAccountStep ==
    /\ pc = "serviceAccount"
    /\ \E o \in {"ok", "error"} :
         /\ local' = [local EXCEPT !.serviceAccount =
                          ~input.skipServiceAccount /\ o = "ok"]
         /\ lastStep' = IF input.skipServiceAccount THEN "sa_skipped"
                        ELSE IF o = "ok" THEN "sa_created" ELSE "sa_failed"
    /\ pc' = "done"
    /\ UNCHANGED <<result, calls>>
    /\ CallFrame

NextCreateProject ==
    \/ CheckGcloudStatus
    \/ CreateProject
    \/ PollProjectActivation
    \/ SaveProjectState
    \/ ProjectSetupFailed
    \/ EnableApisStep
    \/ ServiceAccountStep

SpecCreateProject == InitCreateProject /\ [][NextCreateProject]_vars

\* C34: the currentProject entry is written only after the polling has
\* returned a project in state ACTIVE; when the creation failed or the
\* polling timed out the entry is as it was before the command, the command
\* has enabled no API and has created no service account, and it does not
\* go on.
C34_SavedOnlyWhenActive ==
    /\ local.currentProject # input.currentProject =>
          /\ result.returned
          /\ result.data.lifecycleState = "ACTIVE"
    /\ lastStep \in {"create_failed", "timeout", "not_authenticated"} =>
          /\ local.currentProject = input.currentProject
          /\ ~local.apis
          /\ ~local.serviceAccount
          /\ pc \in {"failed", "threw", "exit1"}
    /\ local.apis \/ local.serviceAccount =>
          local.currentProject = NewProject

\* C34 witness: the polling timed out after its 30 checks and the command
\* exited with the entry of an earlier project still in place
C34_Witness ==
    /\ pc = "exit1"
    /\ lastStep = "timeout"
    /\ local.checks = 30
    /\ local.currentProject = "autoapp-0"
    /\ ~local.apis

----------------------------------------------------------------------------
(* enableAllRequiredApis, enableApi and pollApiEnablement.                 *)

\* apis.js line 13: REQUIRED_APIS
RequiredApis ==
    <<"iam.googleapis.com", "cloudresourcemanager.googleapis.com",
      "firebase.googleapis.com", "androidpublisher.googleapis.com",
      "serviceusage.googleapis.com">>

\* apis.js line 68: maxAttempts = 30
MaxApiAttempts == 30

\* apis.js lines 80, 88: sleep(1000)
ApiSleepMs == 1000

\* the answers to serviceUsage.services.enable: an operation to poll, an
\* answer without operation name, or a failed request
EnableOutcomes ==
    {[kind |-> "ok", named |-> b] : b \in BOOLEAN} \cup
    {[kind |-> "http", code |-> c] : c \in {409, 403}}

\* the answers to serviceUsage.operations.get
ApiOperationOutcomes ==
    {[kind |-> "done"], [kind |-> "running"]} \cup
    {[kind |-> "http", code |-> c] : c \in {404, 500}}

\* enableAllRequiredApis that gives up at the first API that failed
ConcludedStopsAtFailure(l, how) ==
    LET api == RequiredApis[l.index]
    IN  IF how = "failed"
        THEN [l EXCEPT !.failed = Append(@, api),
                       !.index = Len(RequiredApis) + 1, !.attempt = 1]
        ELSE [l EXCEPT !.enabled = Append(@, api), !.how[api] = how,
                       !.index = @ + 1, !.attempt = 1]

\* enableAllRequiredApis, lines 110-118: enableApi for the API at l.index
\* has ended; how tells what was seen last ("failed" when it threw).  The
\* API is pushed to results.enabled or results.failed and the loop goes to
\* the next API
Concluded(l, how) ==
    LET api == RequiredApis[l.index]
    IN  IF how = "failed"
        THEN [l EXCEPT !.failed = Append(@, api),
                       !.index = @ + 1, !.attempt = 1]
        ELSE [l EXCEPT !.enabled = Append(@, api), !.how[api] = how,
                       !.index = @ + 1, !.attempt = 1]

InitApis ==
    /\ CallInit
    /\ pc = "api_enable"
    /\ input \in [projectState : {"found", "missing"}]
    /\ local = [index |-> 1, attempt |-> 1, order |-> <<>>,
                enabled |-> <<>>, failed |-> <<>>,
                how |-> [a \in {RequiredApis[i] : i \in 1..Len(RequiredApis)}
                            |-> "none"]]

\* the loop of enableAllRequiredApis after enableApi ended with local l
AfterApi(l) ==
    /\ local' = l
    /\ pc' = IF l.index > Len(RequiredApis) THEN "returned" ELSE "api_enable"
    /\ result' = IF l.index > Len(RequiredApis)
                 THEN Returned([enabled |-> l.enabled, failed |-> l.failed])
                 ELSE result

\* enableApi(projectId, api), lines 24-63, up to the polling: without the
\* project state it throws; services.enable answered with an operation
\* name starts the polling; without one, or with a 409, enableApi returns
\* true; any other failure is rethrown
EnableApi ==
    /\ pc = "api_enable"
    /\ LET l == [local EXCEPT !.order = Append(@, RequiredApis[local.index])]
       IN  IF input.projectState = "missing"
           THEN /\ AfterApi(Concluded(l, "failed"))
                /\ lastStep' = "no_project_state"
           ELSE \E o \in EnableOutcomes :
                  /\ lastStep' = o.kind
                  /\ IF o.kind = "ok" /\ o.named
                     THEN /\ local' = l
                          /\ pc' = "api_polling"
                          /\ result' = result
                     ELSE IF o.kind = "ok"
                     THEN AfterApi(Concluded(l, "unnamed"))
                     ELSE IF o.code = 409
                     THEN AfterApi(Concluded(l, "already"))
                     ELSE AfterApi(Concluded(l, "failed"))
    /\ calls' = calls
    /\ CallFrame

\* pollApiEnablement, lines 68-97, one pass of the loop with what follows
\* it: done or a 404 returns true; otherwise the next pass after one
\* second, and after the last pass the function returns true as well
PollApiEnablement ==
    /\ pc = "api_polling"
    /\ \E o \in ApiOperationOutcomes :
         /\ lastStep' = o.kind
         /\ IF o.kind = "done" THEN AfterApi(Concluded(local, "done"))
            ELSE IF o.kind = "http" /\ o.code = 404
            THEN AfterApi(Concluded(local, "operation_not_found"))
            ELSE IF local.attempt < MaxApiAttempts
            THEN /\ local' = [local EXCEPT !.attempt = @ + 1]
                 /\ pc' = pc
                 /\ result' = result
            ELSE AfterApi(Concluded(local, "running"))
    /\ calls' = calls
    /\ CallFrame

NextApis ==
    \/ EnableApi
    \/ PollApiEnablement

SpecApis == InitApis /\ [][NextApis]_vars

\* C35: every API that enableApi reported as enabled was seen with its
\* operation done or was answered as already enabled (409); an answer
\* without operation and an operation the platform no longer knows are
\* taken as done.  In particular no API is reported as enabled whose
\* operation was still running at the last pass of the polling.
C35_EnabledOnlyWhenObserved ==
    \A i \in 1..Len(local.enabled) :
        local.how[local.enabled[i]] \in
            {"done", "already", "unnamed", "operation_not_found"}

\* the set of the required APIs
RequiredSet == {RequiredApis[i] : i \in 1..Len(RequiredApis)}

\* C36: enableAllRequiredApis calls enableApi for the required APIs in the
\* order of the list, whatever happened to the earlier ones; it returns
\* (never throws), and the enabled list and the failed list it returns
\* hold each of the five required APIs exactly once between them.
C36_EveryApiAttemptedOnce ==
    /\ pc # "threw"
    /\ local.order = SubSeq(RequiredApis, 1, Len(local.order))
    /\ pc = "returned" =>
          /\ local.order = RequiredApis
          /\ result.returned
          /\ Len(result.data.enabled) + Len(result.data.failed) = 5
          /\ \A a \in RequiredSet :
                \/ /\ \E i \in 1..Len(result.data.enabled) :
                          result.data.enabled[i] = a
                   /\ \A i \in 1..Len(result.data.failed) :
                          result.data.failed[i] # a
                \/ /\ \E i \in 1..Len(result.data.failed) :
                          result.data.failed[i] = a
                   /\ \A i \in 1..Len(result.data.enabled) :
                          result.data.enabled[i] # a

\* C36 witness: the first and the third API failed, the other three were
\* enabled, and the function returned both lists
C36_Witness ==
    /\ pc = "returned"
    /\ result.data.failed = <<RequiredApis[1], RequiredApis[3]>>
    /\ result.data.enabled =
          <<RequiredApis[2], RequiredApis[4], RequiredApis[5]>>

----------------------------------------------------------------------------
(* grantRole: read the IAM policy of the project, add the service account  *)
(* to the binding of the role, write the policy back.                      *)

\* calls of grantRole in one behaviour
MaxGrants == 3

\* part_006 line 54: the member string of the service account
Member == "serviceAccount:app-publisher@autoapp-1"

\* part_006 line 17: REQUIRED_ROLES
RequiredRoles == {"roles/editor", "roles/firebase.admin"}

\* one binding of a policy
Binding(role, members) == [role |-> role, members |-> members]

\* the policies the project may have before the first grant: none, some or
\* all of an editor binding (without or with the service account) and a
\* viewer binding
Policies ==
    {<<>>,
     <<Binding("roles/viewer", <<"user:owner">>)>>,
     <<Binding("roles/editor", <<"user:owner">>)>>,
     <<Binding("roles/editor", <<"user:owner", Member>>),
       Binding("roles/viewer", <<"user:owner">>)>>,
     <<Binding("roles/viewer", <<"user:owner">>),
       Binding("roles/editor", <<Member>>)>>}

\* line 57: policy.bindings?.find(b => b.role === role), as the position of
\* the first binding of the role, 0 when there is none
FindBinding(policy, role) ==
    IF \E i \in 1..Len(policy) : policy[i].role = role
    THEN CHOOSE i \in 1..Len(policy) :
            /\ policy[i].role = role
            /\ \A j \in 1..(i - 1) : policy[j].role # role
    ELSE 0

\* line 61: binding.members?.includes(member)
Includes(members, member) == \E k \in 1..Len(members) : members[k] = member

\* lines 59-77 without the test of line 61: the member is pushed to the
\* binding whether it is there or not
WithMemberPushed(policy, role, member) ==
    LET i == FindBinding(policy, role)
    IN  IF i # 0
        THEN [policy EXCEPT ![i].members = Append(@, member)]
        ELSE Append(policy, Binding(role, <<member>>))

\* lines 59-77: the policy grantRole sends back; the policy it read when
\* the binding of the role already lists the member
WithMember(policy, role, member) ==
    LET i == FindBinding(policy, role)
    IN  IF i # 0
        THEN IF Includes(policy[i].members, member) THEN policy
             ELSE [policy EXCEPT ![i].members = Append(@, member)]
        ELSE Append(policy, Binding(role, <<member>>))

GrantError == "Failed to grant role"

InitRoles ==
    /\ CallInit
    /\ pc = "grant"
    /\ input = [member |-> Member]
    /\ local \in [policy : Policies, role : {""}]

\* one call of grantRole(projectId, serviceAccountEmail, role): a failed
\* getIamPolicy or setIamPolicy is rethrown; setIamPolicy is sent only when
\* the policy read does not list the member under the role
GrantRole ==
    /\ runs < MaxGrants
    /\ \E role \in RequiredRoles, o1 \in ApiOutcomes, o2 \in ApiOutcomes :
         LET get == Call("getIamPolicy", role, Answer(o1))
             set == Call("setIamPolicy", role, Answer(o2))
             updated == WithMember(local.policy, role, input.member)
         IN  IF o1.kind # "ok"
             THEN /\ calls' = <<get>>
                  /\ result' = Threw(GrantError)
                  /\ local' = [local EXCEPT !.role = role]
                  /\ lastStep' = "get_failed"
             ELSE IF updated = local.policy
             THEN /\ calls' = <<get>>
                  /\ result' = Returned("granted")
                  /\ local' = [local EXCEPT !.role = role]
                  /\ lastStep' = "already_granted"
             ELSE /\ calls' = <<get, set>>
                  /\ result' = IF o2.kind = "ok" THEN Returned("granted")
                               ELSE Threw(GrantError)
                  /\ local' = [policy |-> IF o2.kind = "ok" THEN updated
                                          ELSE local.policy,
                               role |-> role]
                  /\ lastStep' = IF o2.kind = "ok" THEN "granted"
                                 ELSE "set_failed"
    /\ runs' = runs + 1
    /\ UNCHANGED <<store, now, nextEditId, ticks, pc, pkg, editId, versionCode,
                   phase, lookup, writer, track, setter, metadata, input>>

NextRoles ==
    \/ GrantRole

SpecRoles == InitRoles /\ [][NextRoles]_vars

\* how often the member is listed under the role in the policy
Listed(policy, role, member) ==
    Cardinality({<<i, k>> \in (1..Len(policy)) \X (1..(MaxGrants + 2)) :
                    /\ policy[i].role = role
                    /\ k <= Len(policy[i].members)
                    /\ policy[i].members[k] = member})

\* the bindings of the policy for roles other than role
OtherBindings(policy, role) ==
    SelectSeq(policy, LAMBDA b : b.role # role)

\* C37: a call of grantRole for a role the service account already holds
\* sends no setIamPolicy, leaves the policy as it is and returns true when
\* the policy could be read; after every call that returned, the policy
\* lists the account exactly once under the role; and no call changes a
\* binding of another role.
C37_GrantRoleIdempotent ==
    [][LET role == local'.role
       IN  /\ Listed(local.policy, role, Member) = 1 =>
                /\ \A i \in 1..Len(calls') : calls'[i].op # "setIamPolicy"
                /\ local'.policy = local.policy
                /\ calls'[1].res = "ok" => result'.returned
           /\ result'.returned => Listed(local'.policy, role, Member) = 1
           /\ OtherBindings(local'.policy, role)
                 = OtherBindings(local.policy, role)]_vars

\* C37 witness: the role was granted with a policy update, and a later
\* call for the same role sent only the read
C37_Witness ==
    /\ runs = 3
    /\ lastStep = "already_granted"
    /\ calls = <<Call("getIamPolicy", "roles/firebase.admin", "ok")>>
    /\ Listed(local.policy, "roles/firebase.admin", Member) = 1
    /\ Len(local.policy) = 3

----------------------------------------------------------------------------
(* startOAuthFlow: the callback server, its requests and the flow timeout. *)
(* A callback request runs up to its next await in one step; the timer and *)
(* the other requests run between its steps.                               *)

\* callback requests that may reach the server in one flow
MaxRequests == 2

Requests == 1..MaxRequests

\* the query of a callback request: ?code=..., ?error=..., or neither
Queries == {"code", "error", "none"}

\* resolve(...) or reject(...) of the promise startOAuthFlow returns: the
\* first call settles it, later calls leave it as it is
Settle(l, how) ==
    [l EXCEPT !.promise = IF @ = "pending" THEN how ELSE @,
              !.settles = @ + 1]

\* resolved = true; server.close(); then the promise is settled
Conclude(l, how) ==
    Settle([l EXCEPT !.resolved = TRUE,
                     !.server = IF @ = "up" THEN "closed" ELSE @], how)

InitOAuth ==
    /\ CallInit
    /\ pc = "start"
    /\ input \in [credentials : {"configured", "missing"}]
    /\ local = [resolved |-> FALSE, promise |-> "pending", settles |-> 0,
                server |-> "none", timer |-> "unset",
                req |-> [r \in Requests |-> "idle"]]

OAuthFrame == CallFrame /\ UNCHANGED result

\* startOAuthFlow up to server.listen: without client credentials the
\* promise is rejected and no server is created
StartOAuthFlow ==
    /\ pc = "start"
    /\ IF input.credentials = "missing"
       THEN /\ pc' = "not_configured"
            /\ local' = Settle(local, "rejected")
       ELSE /\ pc' = "binding"
            /\ UNCHANGED local
    /\ lastStep' = "start"
    /\ UNCHANGED calls
    /\ OAuthFrame

\* the server listens on the callback port and the browser is being opened
ServerListening ==
    /\ pc = "binding"
    /\ pc' = "opening"
    /\ local' = [local EXCEPT !.server = "up"]
    /\ lastStep' = "listening"
    /\ UNCHANGED calls
    /\ OAuthFrame

\* server.on('error'): the port cannot be bound
ServerError ==
    /\ pc = "binding"
    /\ pc' = "server_error"
    /\ local' = IF local.resolved THEN local
                ELSE Settle([local EXCEPT !.resolved = TRUE], "rejected")
    /\ lastStep' = "server_error"
    /\ UNCHANGED calls
    /\ OAuthFrame

\* open(authUrl) returned or threw; the flow timer is set
TimerSet ==
    /\ pc = "opening"
    /\ pc' = "waiting"
    /\ local' = [local EXCEPT !.timer = "armed"]
    /\ lastStep' = "timer_set"
    /\ UNCHANGED calls
    /\ OAuthFrame

\* the flow timer fires
FlowTimeout ==
    /\ local.timer = "armed"
    /\ local' = IF local.resolved THEN [local EXCEPT !.timer = "fired"]
                ELSE Conclude([local EXCEPT !.timer = "fired"], "rejected")
    /\ lastStep' = "timeout"
    /\ UNCHANGED <<pc, calls>>
    /\ OAuthFrame

\* GET /oauth2callback, up to the await of oauth2.getToken(code)
CallbackRequest ==
    /\ local.server = "up"
    /\ \E r \in Requests, q \in Queries :
         /\ local.req[r] = "idle"
         /\ IF local.resolved
            THEN /\ local' = [local EXCEPT !.req[r] = "already_processed"]
                 /\ UNCHANGED calls
            ELSE IF q = "error"
            THEN /\ local' = Conclude([local EXCEPT !.req[r] = "answered"],
                                      "rejected")
                 /\ UNCHANGED calls
            ELSE IF q = "none"
            THEN /\ local' = [local EXCEPT !.req[r] = "answered"]
                 /\ UNCHANGED calls
            ELSE /\ local' = [local EXCEPT !.req[r] = "exchanging"]
                 /\ calls' = Append(calls, Call("getToken", r, local.promise))
    /\ lastStep' = "request"
    /\ UNCHANGED pc
    /\ OAuthFrame

\* oauth2.getToken answers: with tokens saveRefreshToken is entered, a
\* failure goes to the catch block
GetTokenAnswers ==
    /\ \E r \in Requests, ok \in BOOLEAN :
         /\ local.req[r] = "exchanging"
         /\ local' = IF ok THEN [local EXCEPT !.req[r] = "saving"]
                     ELSE Conclude([local EXCEPT !.req[r] = "answered"],
                                   "rejected")
    /\ lastStep' = "token"
    /\ UNCHANGED <<pc, calls>>
    /\ OAuthFrame

\* saveRefreshToken: writeJsonFile puts the token file on disk, or ensureDir
\* or the write fails and the catch block rejects
SaveRefreshToken ==
    /\ \E r \in Requests, ok \in BOOLEAN :
         /\ local.req[r] = "saving"
         /\ IF ok
            THEN /\ local' = [local EXCEPT !.req[r] = "saved"]
                 /\ calls' = Append(calls,
                                    Call("writeJsonFile", r, local.promise))
            ELSE /\ local' = Conclude([local EXCEPT !.req[r] = "answered"],
                                      "rejected")
                 /\ UNCHANGED calls
    /\ lastStep' = "save"
    /\ UNCHANGED pc
    /\ OAuthFrame

\* after the save: resolved = true, server.close(), resolve(tokens)
CallbackSucceeds ==
    /\ \E r \in Requests :
         /\ local.req[r] = "saved"
         /\ local' = Conclude([local EXCEPT !.req[r] = "answered"],
                              "fulfilled")
    /\ lastStep' = "success"
    /\ UNCHANGED <<pc, calls>>
    /\ OAuthFrame

NextOAuth ==
    \/ StartOAuthFlow
    \/ ServerListening
    \/ ServerError
    \/ TimerSet
    \/ FlowTimeout
    \/ CallbackRequest
    \/ GetTokenAnswers
    \/ SaveRefreshToken
    \/ CallbackSucceeds

SpecOAuth == InitOAuth /\ [][NextOAuth]_vars

\* the calls of one kind in the flow's log
CallsOf(op) == {i \in 1..Len(calls) : calls[i].op = op}

\* no token file is written once the flow's promise has settled
NoLateWrite ==
    \A i \in CallsOf("writeJsonFile") : calls[i].res = "pending"

\* the promise keeps its outcome once it is settled
PromiseSettlesOnce ==
    [][local.promise # "pending" => local'.promise = local.promise]_vars

\* C38: in one flow at most one authorization code is exchanged for tokens,
\* and no token file is written after the flow's promise has settled
C38_OneExchangeNoLateWrite ==
    /\ Cardinality(CallsOf("getToken")) <= 1
    /\ NoLateWrite

====
